---- MODULE Spec2Model ----
(***************************************************************************)
(* A model of lm_testing.py: elliptical-Gaussian model evaluation, the     *)
(* post-fit canonicalization of test2d, the masked-data fit drivers        *)
(* do_lmfit / do_mpfit, the whitening matrix Bmatrix and the flat-vector   *)
(* evaluator ntwodgaussian_mpfit.                                          *)
(*                                                                         *)
(* Real numbers are modelled exactly on grids:                             *)
(*  - an angle is an integer number of grid units, HalfPi units to pi/2.   *)
(*    Unit 1 is atan(3/4) and unit 2 is atan(4/3), so that 5*cos and 5*sin *)
(*    of every grid angle are integers and the order of angles is kept;    *)
(*  - amp*exp(e) is the record [amp, num, den] with e = num/den in lowest  *)
(*    terms (exp is injective, so equal records are equal values);         *)
(*  - a datum is a record that tells a number from NaN and from inf;      *)
(*  - a matrix holds integers over one common denominator.                *)
(***************************************************************************)
EXTENDS Integers, Sequences, FiniteSets, TLC

VARIABLES
    tl_in,        \* theta_limit: the argument of the last call
    tl_out,       \* theta_limit: the value it returned
    tl_called,    \* theta_limit: TRUE once it has been called
    fit_params,   \* test2d: the fitted parameter set (name -> entry)
    fit_before,   \* test2d: fit_params as the solver returned it
    canon_pc,     \* test2d: "fitted" | "canon" (lines 490-494 ran) | "skipped"
    heap,         \* the lmfit.Parameters objects, by reference (1 is the caller's)
    params0,      \* the caller's object as it was before the first fit
    parinfo,      \* the caller's mpfit parameter list
    fit_D,        \* the dimensionality of the observation
    data,         \* the observation: a sequence (D=1) or a sequence of rows (D=2)
    fit_pc,       \* "idle" | "solving" (inside lmfit.minimize / mpfit)
    fit_api,      \* the driver running or last run: "none" | "lmfit" | "mpfit"
    fit_B,        \* the argument B of the driver
    fit_jfn,      \* the Dfun given to lmfit.minimize: "none" | "jacobian" | "jacobian2d"
    fit_jac,      \* what the Dfun returned at the parameters the residual was
                  \* last evaluated at, and the branch of jacobian2d that ran
    local_ref,    \* do_lmfit: the reference held by its local name params
    trial_p,      \* mpfit: the flat vector the solver is trying
    mask,         \* the driver's mask
    mask_evals,   \* how often np.where(np.isfinite(data)) ran in this call
    resid,        \* the last residual the solver received
    resid_given,  \* TRUE once the solver has received a residual in this call
    solver_calls, \* how often this call invoked the solver
    evals,        \* how often the solver evaluated the residual in this call
    fits,         \* the number of driver calls so far
    ret_ref,      \* the reference do_lmfit returned (0: nothing returned)
    outcome,      \* how the last call ended
    solver_out,   \* what the solver reported at the end of its run
    mp_dof,       \* do_mpfit: mp.dof
    wh_C,         \* Bmatrix: its argument C
    wh_pc,        \* Bmatrix: "idle" | "returned" | "exited" (sys.exit(1))
    wh_L,         \* Bmatrix: the eigenvalues eigh gave
    wh_B,         \* Bmatrix: the matrix it returned
    fl_in,        \* theta_limit, step by step: its argument, a float
    fl_theta,     \* theta_limit, step by step: the local theta
    fl_pc,        \* theta_limit, step by step: "first" | "second" (the loop
                  \* that runs) | "returned"
    fl_odd,       \* theta_limit, step by step: whether the passes the loops
                  \* have made so far are odd in number
    mg_in,        \* ntwodgaussian_mpfit: its argument inpars
    mg_pc,        \* ntwodgaussian_mpfit: "idle" | "raised" | "returned" | "evaluated"
    mg_at,        \* rfunc: the coordinate (x, y) of the last call
    mg_val,       \* rfunc: the value it returned
    ml_obj,       \* ntwodgaussian_lmfit: its argument params
    ml_pc,        \* ntwodgaussian_lmfit: "idle" | "returned" | "evaluated"
    ml_at,        \* its rfunc: the coordinate (x, y) of the last call
    ml_val,       \* its rfunc: the value it returned
    cm_D,         \* correlation matrix: 1 (Cmatrix) or 2 (Cmatrix2d)
    cm_x,         \* the x coordinates of the samples
    cm_y,         \* the y coordinates of the samples (D = 2)
    cm_s,         \* the smoothing: sigma (D = 1) or (sigmax, sigmay, theta)
    cm_pc,        \* "idle" | "built" (C returned) | "whitened" | "exited"
    cm_C,         \* the matrix Cmatrix / Cmatrix2d returned
    cm_B,         \* the matrix Bmatrix returned for cm_C
    ev_p,         \* elliptical_gaussian: amp, xo, yo, sx, sy, theta of the call
    ev_at,        \* elliptical_gaussian: the coordinate (x, y) of the call
    ev_pc,        \* elliptical_gaussian: "idle" | "returned"
    ev_val,       \* elliptical_gaussian: the value it returned
    cr_J,         \* CRB_errs: its argument jac (one row per sample)
    cr_C,         \* CRB_errs: its argument C
    cr_B,         \* the matrix Bmatrix(C) returned to the caller
    cr_pc,        \* the caller: "idle" | "whitened" | "exited" (in Bmatrix)
    cr_withB,     \* what CRB_errs(jac, C, B) did
    cr_direct,    \* what CRB_errs(jac, C) did
    lp_x,         \* test1d: the sample positions x
    lp_smoothing, \* test1d: the smoothing scale
    lp_j,         \* test1d: the loop index j
    lp_pc,        \* test1d: "fit" | "cmatrix" | "bmatrix" | "fit_corr" |
                  \*         "collect" | "done"
    lp_C,         \* test1d: C of the current pass
    lp_B,         \* test1d: B of the current pass
    lp_ok,        \* test1d: the stderr tests of the two fits of this pass
    lp_kept,      \* test1d: the lengths of errs_nocorr and errs_corr
    lp_fits,      \* test1d: the number of do_lmfit calls so far
    lp_cm,        \* test1d: the number of Cmatrix calls so far
    lp_bm,        \* test1d: the number of Bmatrix calls so far
    jc_D,         \* the Jacobian provider: 1 (jacobian) or 2 (jacobian2d)
    jc_p,         \* the values of pars
    jc_fixed,     \* the name of the parameter of pars with vary=False, or "none"
    jc_errs,      \* jacobian2d: its argument errs (<<>> for None)
    jc_x,         \* jacobian2d: xy[0], the first coordinates of the samples
    jc_y,         \* jacobian2d: xy[1], the second coordinates of the samples
    jc_ana,       \* the matrix jacobian2d(pars, xy, emp=False) returned, or
                  \* for D = 1 the one jacobian(pars, x) returned
    jc_emp        \* the matrix jacobian2d(pars, xy, emp=True) returned

theta_vars == <<tl_in, tl_out, tl_called, fl_in, fl_theta, fl_pc, fl_odd>>
canon_vars == <<fit_params, fit_before, canon_pc>>

fit_vars == <<heap, params0, parinfo, fit_D, data, fit_pc, fit_api, fit_B,
              fit_jfn, fit_jac, local_ref, trial_p, mask, mask_evals, resid,
              resid_given, solver_calls, evals, fits, ret_ref, outcome,
              solver_out, mp_dof>>

whiten_vars == <<wh_C, wh_pc, wh_L, wh_B>>

multi_vars == <<mg_in, mg_pc, mg_at, mg_val, ml_obj, ml_pc, ml_at, ml_val>>

corr_vars == <<cm_D, cm_x, cm_y, cm_s, cm_pc, cm_C, cm_B>>

\* the fitting side of the program, and the matrices and derivatives side
fitting_vars == <<theta_vars, canon_vars, fit_vars, whiten_vars, multi_vars>>
eval_vars == <<ev_p, ev_at, ev_pc, ev_val>>

crb_vars == <<cr_J, cr_C, cr_B, cr_pc, cr_withB, cr_direct>>

loop_vars == <<lp_x, lp_smoothing, lp_j, lp_pc, lp_C, lp_B, lp_ok, lp_kept,
               lp_fits, lp_cm, lp_bm>>

jac_vars == <<jc_D, jc_p, jc_fixed, jc_errs, jc_x, jc_y, jc_ana, jc_emp>>

analysis_vars == <<corr_vars, eval_vars, crb_vars, loop_vars, jac_vars>>

vars == <<fitting_vars, analysis_vars>>

-----------------------------------------------------------------------------
(* Bounds of the model *)
MaxTheta == 60      \* theta_limit is called with -MaxTheta..MaxTheta units
MaxSigma == 3       \* fitted sx, sy range over 1..MaxSigma
MaxStderr == 1      \* a reported standard error ranges over 0..MaxStderr
MaxCoord == 2       \* model coordinates range over -MaxCoord..MaxCoord
MaxPeriods == 2     \* periods k with |k| <= MaxPeriods in theta + k*pi
DataLen == 3        \* a 1D observation has DataLen samples
DataCols == 2       \* a 2D observation has two rows of DataCols samples
MaxBad == 2         \* at most MaxBad samples of an observation are not finite
MaxEvals == 2       \* the solver evaluates the residual at most MaxEvals times
MaxFits == 2        \* the caller fits at most MaxFits times
MaxRoot == 3        \* positive eigenvalues are the squares of 1..MaxRoot
MaxComponents == 2  \* a flat vector holds at most MaxComponents whole groups
MaxPix == 1         \* pixel coordinates of samples range over 0..MaxPix
MaxSamples == 2     \* a correlation matrix is built for 1..MaxSamples samples
MaxAmp == 2         \* amplitudes range over 1..MaxAmp
MantissaBits == 4   \* a float keeps MantissaBits significant bits (a double 53)
MaxExp == 4         \* floats m * 2^e are drawn with e in 0..MaxExp
MaxAxisStderr == 2  \* the standard errors of sx, sy range over 0..MaxAxisStderr

\* test1d line 327: for j in xrange(3)
Passes == 3

-----------------------------------------------------------------------------
(* Angles *)
HalfPi == 3                 \* np.pi/2 in grid units
Pi == 2 * HalfPi            \* np.pi

Abs(n) == IF n < 0 THEN -n ELSE n

RECURSIVE GCD(_, _)
GCD(a, b) == IF b = 0 THEN Abs(a) ELSE GCD(b, a % b)

\* 5*cos and 5*sin of a grid angle in the first quadrant [0, pi/2)
Cos5Q == <<5, 4, 3>>
Sin5Q == <<0, 3, 4>>

\* math.cos, math.sin times 5: quarter turns permute and negate the table
cos5(theta) ==
    LET q == (theta \div HalfPi) % 4
        r == (theta % HalfPi) + 1
    IN  CASE q = 0 -> Cos5Q[r]
          [] q = 1 -> -Sin5Q[r]
          [] q = 2 -> -Cos5Q[r]
          [] q = 3 -> Sin5Q[r]

sin5(theta) ==
    LET q == (theta \div HalfPi) % 4
        r == (theta % HalfPi) + 1
    IN  CASE q = 0 -> Sin5Q[r]
          [] q = 1 -> Cos5Q[r]
          [] q = 2 -> -Sin5Q[r]
          [] q = 3 -> -Cos5Q[r]

-----------------------------------------------------------------------------
(* Floating-point addition: the exact sum, rounded to the nearest float *)

RECURSIVE Pow2(_)
Pow2(n) == IF n = 0 THEN 1 ELSE 2 * Pow2(n - 1)

\* the spacing of the floats around x: 1 while x fits the mantissa, doubled
\* with every further bit
RECURSIVE UlpFrom(_, _)
UlpFrom(x, u) ==
    IF Abs(x) < Pow2(MantissaBits) * u THEN u ELSE UlpFrom(x, 2 * u)

Ulp(x) == UlpFrom(x, 1)

\* round to nearest, ties to the even multiple
Round(x) ==
    LET u == Ulp(x)
        q == x \div u
        r == x - q * u
    IN  IF 2 * r < u THEN q * u
        ELSE IF 2 * r > u THEN (q + 1) * u
        ELSE IF q % 2 = 0 THEN q * u ELSE (q + 1) * u

\* theta += np.pi and theta -= np.pi, lines 164 and 166
float_add(a, b) == Round(a + b)

\* the finite floats of the model, in grid units
Floats ==
    {s * m * Pow2(ex) : s \in {-1, 1}, m \in 0..(Pow2(MantissaBits) - 1),
                        ex \in 0..MaxExp}

-----------------------------------------------------------------------------
(* Model evaluation *)

\* amp * np.exp(num/den), den > 0, as a value in normal form
ExpVal(amp, num, den) ==
    LET g == GCD(num, den)
    IN  IF amp = 0 THEN [amp |-> 0, num |-> 0, den |-> 1]
        ELSE [amp |-> amp, num |-> num \div g, den |-> den \div g]

\* line 35: amp * np.exp(-0.5*((x-cen)/sigma)**2)
gaussian(x, amp, cen, sigma) ==
    ExpVal(amp, -((x - cen) * (x - cen)), 2 * sigma * sigma)

\* mutant: yyo = x - yo
elliptical_gaussian_xyo(x, y, amp, xo, yo, sx, sy, theta) ==
    LET sint == sin5(theta)
        cost == cos5(theta)
        xxo == x - xo
        yyo == x - yo
        a == xxo * cost + yyo * sint
        b == xxo * sint - yyo * cost
    IN  ExpVal(amp, -(a * a * sy * sy + b * b * sx * sx),
               2 * 25 * sx * sx * sy * sy)

\* mutant: the second term adds yyo*cost
elliptical_gaussian_plus(x, y, amp, xo, yo, sx, sy, theta) ==
    LET sint == sin5(theta)
        cost == cos5(theta)
        xxo == x - xo
        yyo == y - yo
        a == xxo * cost + yyo * sint
        b == xxo * sint + yyo * cost
    IN  ExpVal(amp, -(a * a * sy * sy + b * b * sx * sx),
               2 * 25 * sx * sx * sy * sy)

\* lines 25-31
elliptical_gaussian(x, y, amp, xo, yo, sx, sy, theta) ==
    LET sint == sin5(theta)
        cost == cos5(theta)
        xxo == x - xo
        yyo == y - yo
        a == xxo * cost + yyo * sint
        b == xxo * sint - yyo * cost
        \* exp = a^2/(25 sx^2) + b^2/(25 sy^2), then exp *= -1/2
    IN  ExpVal(amp, -(a * a * sy * sy + b * b * sx * sx),
               2 * 25 * sx * sx * sy * sy)

\* lines 25-31 for theta a whole number of radians. The sine and the cosine
\* of a whole number of radians other than 0 are transcendental, so the
\* exponent is a rational number only where it does not depend on theta: at
\* the centre and for sx = sy; elsewhere the value is kept as it is written
elliptical_gaussian_radians(x, y, amp, xo, yo, sx, sy, theta) ==
    LET xxo == x - xo
        yyo == y - yo
    IN  IF theta = 0 THEN elliptical_gaussian(x, y, amp, xo, yo, sx, sy, 0)
        ELSE IF sx = sy \/ (xxo = 0 /\ yyo = 0) \/ amp = 0
        THEN ExpVal(amp, -(xxo * xxo + yyo * yyo), 2 * sx * sx)
        ELSE [amp |-> amp, xxo |-> xxo, yyo |-> yyo, sx |-> sx, sy |-> sy,
              radians |-> theta]

-----------------------------------------------------------------------------
(* theta_limit *)

RECURSIVE theta_limit_up(_)
theta_limit_up(theta) ==
    IF theta <= -1 * HalfPi THEN theta_limit_up(theta + Pi) ELSE theta

RECURSIVE theta_limit_down(_)
theta_limit_down(theta) ==
    IF theta > HalfPi THEN theta_limit_down(theta - Pi) ELSE theta

\* mutant: the first loop tests < instead of <=
RECURSIVE theta_limit_up_strict(_)
theta_limit_up_strict(theta) ==
    IF theta < -1 * HalfPi THEN theta_limit_up_strict(theta + Pi) ELSE theta

theta_limit_strict(theta) == theta_limit_down(theta_limit_up_strict(theta))

\* mutant: the second loop subtracts a full turn
RECURSIVE theta_limit_down_2pi(_)
theta_limit_down_2pi(theta) ==
    IF theta > HalfPi THEN theta_limit_down_2pi(theta - 2 * Pi) ELSE theta

theta_limit_2pi(theta) == theta_limit_down_2pi(theta_limit_up(theta))

theta_limit(theta) == theta_limit_down(theta_limit_up(theta))

-----------------------------------------------------------------------------
(* test2d: the parameter set and its canonicalization *)

Names2d == <<"amp", "xo", "yo", "sx", "sy", "theta">>
NameSet2d == {Names2d[i] : i \in 1..Len(Names2d)}

\* params.add('theta', value=0, min=-2*np.pi, max=2*np.pi)
ThetaMin == -2 * Pi
ThetaMax == 2 * Pi

Entry(v, se) == [value |-> v, stderr |-> se]

\* an entry with the bounds it was added with
Bounded(entry, b) ==
    [value |-> entry.value, stderr |-> entry.stderr, min |-> b[1], max |-> b[2]]

\* the bounds <<min, max>> a caller can give an axis length
AxisBounds == {<<0, MaxSigma>>, <<1, MaxSigma + 1>>}

\* what lmfit.minimize can leave in the copy it fits
FittedSets ==
    {[n \in NameSet2d |->
        CASE n = "amp" -> Entry(1, 1)
          [] n = "xo" -> Entry(0, 1)
          [] n = "yo" -> Entry(1, 1)
          [] n = "sx" -> Bounded(Entry(sx, ex), bx)
          [] n = "sy" -> Bounded(Entry(sy, ey), by)
          [] n = "theta" -> Bounded(Entry(th, 1), <<ThetaMin, ThetaMax>>)] :
        sx \in 1..MaxSigma, sy \in 1..MaxSigma, th \in ThetaMin..ThetaMax,
        ex \in 0..MaxAxisStderr, ey \in 0..MaxAxisStderr,
        bx \in AxisBounds, by \in AxisBounds}

AllStderrPositive(p) == \A n \in NameSet2d : p[n].stderr > 0

\* mutant: the entries are not exchanged
canonicalize_noswap(p) ==
    LET q == IF p["sy"].value > p["sx"].value
             THEN [p EXCEPT !["theta"].value = @ + HalfPi]
             ELSE p
    IN  [q EXCEPT !["theta"].value = theta_limit(@)]

\* mutant: the swap adds pi instead of pi/2
canonicalize_pi(p) ==
    LET q == IF p["sy"].value > p["sx"].value
             THEN [p EXCEPT !["sx"] = p["sy"], !["sy"] = p["sx"],
                            !["theta"].value = @ + Pi]
             ELSE p
    IN  [q EXCEPT !["theta"].value = theta_limit(@)]

\* mutant: only the values of sx and sy are exchanged
canonicalize_values(p) ==
    LET q == IF p["sy"].value > p["sx"].value
             THEN [p EXCEPT !["sx"].value = p["sy"].value,
                            !["sy"].value = p["sx"].value,
                            !["theta"].value = @ + HalfPi]
             ELSE p
    IN  [q EXCEPT !["theta"].value = theta_limit(@)]

\* lines 491-494: swap the sx and sy entries, turn by pi/2, limit theta
canonicalize(p) ==
    LET q == IF p["sy"].value > p["sx"].value
             THEN [p EXCEPT !["sx"] = p["sy"], !["sy"] = p["sx"],
                            !["theta"].value = @ + HalfPi]
             ELSE p
    IN  [q EXCEPT !["theta"].value = theta_limit(@)]

\* the model the parameter set stands for, at one coordinate
ModelAt(p, x, y) ==
    elliptical_gaussian(x, y, p["amp"].value, p["xo"].value, p["yo"].value,
                        p["sx"].value, p["sy"].value, p["theta"].value)

-----------------------------------------------------------------------------
(* Observations, masks and parameter objects of the fit drivers *)

NaN == [kind |-> "nan", v |-> 0]
Inf == [kind |-> "inf", v |-> 0]
Num(v) == [kind |-> "num", v |-> v]
DataVals == {Num(1), NaN, Inf}

np_isfinite(d) == d.kind = "num"



\* the values of an observation in row-major order (np.ravel)
Flat(dat, D) ==
    IF D = 1 THEN dat
    ELSE [k \in 1..(Len(dat) * Len(dat[1])) |->
             dat[((k - 1) \div Len(dat[1])) + 1][((k - 1) % Len(dat[1])) + 1]]

\* the coordinates of an observation in row-major order, counted from 0
Coords(dat, D) ==
    IF D = 1 THEN [k \in 1..Len(dat) |-> k - 1]
    ELSE [k \in 1..(Len(dat) * Len(dat[1])) |->
             <<(k - 1) \div Len(dat[1]), (k - 1) % Len(dat[1])>>]

\* data[c] for a coordinate c
DataAt(dat, D, c) == IF D = 1 THEN dat[c + 1] ELSE dat[c[1] + 1][c[2] + 1]

\* mutant: the mask keeps everything that is not NaN
np_where_notnan(dat, D) ==
    SelectSeq(Coords(dat, D), LAMBDA c : DataAt(dat, D, c).kind # "nan")

\* np.where(np.isfinite(data)), and mask[0] when D = 1
np_where_isfinite(dat, D) ==
    SelectSeq(Coords(dat, D), LAMBDA c : np_isfinite(DataAt(dat, D, c)))

NFinite(dat, D) == Len(SelectSeq(Flat(dat, D), np_isfinite))

Observations(D) ==
    LET all == IF D = 1 THEN [1..DataLen -> DataVals]
               ELSE [1..2 -> [1..DataCols -> DataVals]]
    IN  {dat \in all :
            Len(SelectSeq(Flat(dat, D), LAMBDA d : ~np_isfinite(d))) <= MaxBad}

\* a bound that is not set (min=None, max=None)
NoBound == 1000

Parameter(v, lo, hi, vary) ==
    [value |-> v, min |-> lo, max |-> hi, vary |-> vary, stderr |-> 0]

Names1d == <<"amp", "cen", "sigma">>
NameSet1d == {Names1d[i] : i \in 1..Len(Names1d)}

FitNames(D) == IF D = 1 THEN NameSet1d ELSE NameSet2d

\* test1d lines 329-332 and test2d lines 443-450, with one name held fixed
\* when fixed is one of the names
CallerParams(D, fixed) ==
    [components |-> 1,
     p |-> [n \in FitNames(D) |->
        CASE n = "amp" -> Parameter(1, 1, 2, n # fixed)
          [] n = "cen" -> Parameter(1, -NoBound, NoBound, n # fixed)
          [] n = "sigma" -> Parameter(1, -NoBound, NoBound, n # fixed)
          [] n = "xo" -> Parameter(1, -NoBound, NoBound, n # fixed)
          [] n = "yo" -> Parameter(0, -NoBound, NoBound, n # fixed)
          [] n = "sx" -> Parameter(2, 1, NoBound, n # fixed)
          [] n = "sy" -> Parameter(1, 1, NoBound, n # fixed)
          [] n = "theta" -> Parameter(0, ThetaMin, ThetaMax, n # fixed)]]

NFree(obj) == Cardinality({n \in DOMAIN obj.p : obj.p[n].vary})

\* test_mpfit lines 767-797: one component, pa in degrees
CallerParinfo(fixed) ==
    [i \in 1..6 |->
        [value |-> <<1, 1, 0, 2, 1, 0>>[i], fixed |-> Names2d[i] = fixed]]

Clip(v, lo, hi) == IF v < lo THEN lo ELSE IF v > hi THEN hi ELSE v

\* the solver moves every free parameter of the object by dv, inside its bounds
Shift(obj, dv) ==
    [obj EXCEPT !.p = [n \in DOMAIN obj.p |->
        IF obj.p[n].vary
        THEN [obj.p[n] EXCEPT !.value = Clip(@ + dv, obj.p[n].min, obj.p[n].max)]
        ELSE obj.p[n]]]

\* the solver moves every free entry of the flat vector by dv (pa by quarter turns)
ShiftVector(p, info, dv) ==
    [i \in 1..Len(p) |->
        IF info[i].fixed THEN p[i]
        ELSE IF i % 6 = 0 THEN p[i] + 90 * dv ELSE p[i] + dv]

\* the solver writes the standard error se on every free parameter
WithStderr(obj, se) ==
    [obj EXCEPT !.p = [n \in DOMAIN obj.p |->
        IF obj.p[n].vary THEN [obj.p[n] EXCEPT !.stderr = se] ELSE obj.p[n]]]

\* copy.deepcopy(params): a new object with the same content; it takes the
\* place of the copy an earlier call returned, which the caller has dropped
\* mutant: the driver keeps the caller's reference
deepcopy_alias(h, ref) == [heap |-> h, ref |-> ref]

deepcopy(h, ref) == [heap |-> <<h[1], h[ref]>>, ref |-> 2]

-----------------------------------------------------------------------------
(* The models and residuals of the fit drivers *)

\* np.radians(pa) for pa a multiple of 90 degrees
np_radians(pa) == (pa \div 90) * HalfPi

\* a value of rfunc: None, or the sum of the terms added so far, in order
None == [none |-> TRUE, terms |-> <<>>]

\* lines 58-61 and 82-85: result = g when result is None, else result += g
Add(result, g) == [none |-> FALSE, terms |-> Append(result.terms, g)]

\* lines 72-86: every pass of the loop reads the same six names (prefix = "")
ntwodgaussian_lmfit(obj, x, y) ==
    LET g == elliptical_gaussian(x, y, obj.p["amp"].value, obj.p["xo"].value,
                                 obj.p["yo"].value, obj.p["sx"].value,
                                 obj.p["sy"].value, obj.p["theta"].value)
        RECURSIVE Loop(_, _)
        Loop(i, result) == IF i >= obj.components THEN result
                           ELSE Loop(i + 1, Add(result, g))
    IN  Loop(0, None)

\* lines 72-86 for a model whose theta is a whole number of radians
ntwodgaussian_lmfit_radians(obj, x, y) ==
    LET g == elliptical_gaussian_radians(x, y, obj.p["amp"].value,
                 obj.p["xo"].value, obj.p["yo"].value, obj.p["sx"].value,
                 obj.p["sy"].value, obj.p["theta"].value)
        RECURSIVE Loop(_, _)
        Loop(i, result) == IF i >= obj.components THEN result
                           ELSE Loop(i + 1, Add(result, g))
    IN  Loop(0, None)

\* lines 46-52: reshape(len(inpars) / 6, 6) fails unless the sizes agree
ParameterCountOk(inpars) == (Len(inpars) \div 6) * 6 = Len(inpars)

\* line 47: the rows of np.array(inpars).reshape(len(inpars) / 6, 6)
Reshape(inpars) ==
    [i \in 1..(Len(inpars) \div 6) |-> SubSeq(inpars, 6 * i - 5, 6 * i)]

\* lines 54-62 for a vector that passed the reshape
ntwodgaussian_mpfit(inpars, x, y) ==
    LET params == Reshape(inpars)
        RECURSIVE Loop(_, _)
        Loop(i, result) ==
            IF i > Len(params) THEN result
            ELSE Loop(i + 1,
                      Add(result,
                          elliptical_gaussian(x, y, params[i][1], params[i][2],
                                              params[i][3], params[i][4],
                                              params[i][5],
                                              np_radians(params[i][6]))))
    IN  Loop(1, None)

NoB == [none |-> TRUE, m |-> <<>>]
Eye(n) == [none |-> FALSE,
           m |-> [i \in 1..n |-> [j \in 1..n |-> IF i = j THEN 1 ELSE 0]]]

\* b times the identity
ScaledEye(n, b) ==
    [none |-> FALSE,
     m |-> [i \in 1..n |-> [j \in 1..n |-> IF i = j THEN b ELSE 0]]]

\* model - data[mask] at one masked coordinate c: the difference of the model
\* value and the datum; it is finite only when the datum is
Diff(model, dat, D, c) ==
    [kind |-> DataAt(dat, D, c).kind, model |-> model,
     data |-> DataAt(dat, D, c).v, at |-> c]

\* v.dot(B) is defined when v has as many entries as B has rows
DotOk(n, B) == B.none \/ Len(B.m) = n

\* a residual that is never multiplied by B
Residual_plain(vec, B) == [vec |-> vec, B |-> <<>>, whitened |-> FALSE]

\* the vector model - data[mask], and B when it is multiplied by B
Residual(vec, B) == [vec |-> vec, B |-> B.m, whitened |-> ~B.none]

\* do_lmfit.residual, lines 134-146, with data given
residual(obj, msk, dat, B, D) ==
    LET model == [i \in 1..Len(msk) |->
                    IF D = 2
                    THEN ntwodgaussian_lmfit(obj, msk[i][1], msk[i][2])
                    ELSE Add(None, gaussian(msk[i], obj.p["amp"].value,
                                            obj.p["cen"].value,
                                            obj.p["sigma"].value))]
    IN  Residual([i \in 1..Len(msk) |-> Diff(model[i], dat, D, msk[i])], B)

\* do_mpfit.erfunc, lines 102-109, for a vector that passed the reshape
erfunc(p, msk, dat, B) ==
    LET model == [i \in 1..Len(msk) |->
                    ntwodgaussian_mpfit(p, msk[i][1], msk[i][2])]
    IN  Residual([i \in 1..Len(msk) |-> Diff(model[i], dat, 2, msk[i])], B)

NoResidual == Residual(<<>>, NoB)

-----------------------------------------------------------------------------
(* Matrices with rational entries: n[i][j] / d, d > 0 *)

Rows(m) == Len(m)

MatMul(a, b) ==
    LET RECURSIVE Dot(_, _, _)
        Dot(i, j, k) == IF k = 0 THEN 0
                        ELSE a[i][k] * b[k][j] + Dot(i, j, k - 1)
    IN  [i \in 1..Len(a) |-> [j \in 1..Len(b[1]) |-> Dot(i, j, Len(b))]]

Transpose(a) == [j \in 1..Len(a[1]) |-> [i \in 1..Len(a) |-> a[i][j]]]

\* np.diag(v)
Diag(v) == [i \in 1..Len(v) |-> [j \in 1..Len(v) |-> IF i = j THEN v[i] ELSE 0]]

Scaled(k, n) == [i \in 1..n |-> [j \in 1..n |-> IF i = j THEN k ELSE 0]]

RECURSIVE Product(_)
Product(v) == IF Len(v) = 0 THEN 1 ELSE Head(v) * Product(Tail(v))

NoMatrix == [n |-> <<>>, d |-> 1]

\* eigenvalues of the modelled matrices: -1, 0 and the squares up to MaxRoot^2
EigVals == {-1, 0} \cup {r * r : r \in 1..MaxRoot}

\* 5 times an orthogonal 2x2 matrix: a rotation by a grid angle, or that
\* rotation after a reflection
Q5of(theta, refl) ==
    IF refl THEN <<<<cos5(theta), sin5(theta)>>, <<sin5(theta), -cos5(theta)>>>>
    ELSE <<<<cos5(theta), -sin5(theta)>>, <<sin5(theta), cos5(theta)>>>>

\* the decompositions (L, Q) the model covers, Q held as 5*Q; for a 1x1
\* matrix the LAPACK drivers behind eigh return the eigenvector 1 without
\* computing anything
Decompositions(size) ==
    IF size = 1
    THEN {[L |-> <<l>>, Q5 |-> <<<<5>>>>] : l \in EigVals}
    ELSE {[L |-> <<l1, l2>>, Q5 |-> Q5of(theta, refl)] :
            l1 \in EigVals, l2 \in EigVals,
            theta \in 0..(4 * HalfPi - 1), refl \in BOOLEAN}

\* the matrix Q.diag(L).Q^T
Compose(dec) ==
    [n |-> MatMul(MatMul(dec.Q5, Diag(dec.L)), Transpose(dec.Q5)), d |-> 25]

\* the symmetric matrices a caller passes to Bmatrix
CInputs == {Compose(dec) : dec \in Decompositions(1) \cup Decompositions(2)}

Ascending(v) == \A i \in 1..(Len(v) - 1) : v[i] <= v[i + 1]

\* scipy.linalg.eigh(C): any decomposition C = Q.diag(L).Q^T with the
\* eigenvalues in ascending order; the signs of the eigenvectors, and their
\* directions for a repeated eigenvalue, are the library's choice
eigh(C) ==
    {dec \in Decompositions(Rows(C.n)) : Ascending(dec.L) /\ Compose(dec) = C}

\* np.sqrt of a square
np_sqrt(l) == CHOOSE r \in 0..l : r * r = l

\* Q.dot(diag(w)) for w[j] = 1/root[j], over the denominator 5 * Product(root)
QdotS(Q5, root) ==
    [n |-> [i \in 1..Len(Q5) |-> [j \in 1..Len(Q5) |->
                Q5[i][j] * (Product(root) \div root[j])]],
     d |-> 5 * Product(root)]

\* mutant: abs(L) turns negative eigenvalues into positive ones
Bmatrix_abs(C) ==
    {LET L == [j \in 1..Len(dec.L) |-> Abs(dec.L[j])]
     IN  IF ~(\A j \in 1..Len(L) : L[j] > 0)
         THEN [exit |-> TRUE, B |-> NoMatrix, L |-> dec.L]
         ELSE [exit |-> FALSE, L |-> dec.L,
               B |-> QdotS(dec.Q5, [j \in 1..Len(L) |-> np_sqrt(L[j])])] :
     dec \in eigh(C)}

\* mutant: S = np.diag(1/L)
Bmatrix_nosqrt(C) ==
    {IF ~(\A j \in 1..Len(dec.L) : dec.L[j] > 0)
     THEN [exit |-> TRUE, B |-> NoMatrix, L |-> dec.L]
     ELSE [exit |-> FALSE, L |-> dec.L, B |-> QdotS(dec.Q5, dec.L)] :
     dec \in eigh(C)}

\* lines 194-202: what Bmatrix(C) can do: sys.exit(1), or return B
Bmatrix(C) ==
    {IF ~(\A j \in 1..Len(dec.L) : dec.L[j] > 0)
     THEN [exit |-> TRUE, B |-> NoMatrix, L |-> dec.L]
     ELSE [exit |-> FALSE, L |-> dec.L,
           B |-> QdotS(dec.Q5, [j \in 1..Len(dec.L) |-> np_sqrt(dec.L[j])])] :
     dec \in eigh(C)}

-----------------------------------------------------------------------------
(* The Cramer-Rao bound *)

Sign(n) == IF n < 0 THEN -1 ELSE 1

\* determinant and adjugate of a matrix of size 1 or 2
Det(m) ==
    IF Len(m) = 1 THEN m[1][1] ELSE m[1][1] * m[2][2] - m[1][2] * m[2][1]

Adj(m) ==
    IF Len(m) = 1 THEN <<<<1>>>>
    ELSE <<<<m[2][2], -m[1][2]>>, <<-m[2][1], m[1][1]>>>>

\* a rational matrix in lowest terms
Normal(A) ==
    LET RECURSIVE RowGCD(_, _)
        RowGCD(row, g) ==
            IF Len(row) = 0 THEN g ELSE RowGCD(Tail(row), GCD(Head(row), g))
        RECURSIVE AllGCD(_, _)
        AllGCD(rows, g) ==
            IF Len(rows) = 0 THEN g
            ELSE AllGCD(Tail(rows), RowGCD(Head(rows), g))
        g == AllGCD(A.n, A.d)
    IN  [n |-> [i \in 1..Len(A.n) |->
                   [j \in 1..Len(A.n[i]) |-> A.n[i][j] \div g]],
         d |-> A.d \div g]

\* scipy.linalg.inv(A) raises LinAlgError for a singular matrix
Singular(A) == Det(A.n) = 0

\* scipy.linalg.inv(A) for the others: d * adj(n) / det(n)
inv(A) ==
    Normal([n |-> [i \in 1..Len(A.n) |-> [j \in 1..Len(A.n) |->
                      Sign(Det(A.n)) * A.d * Adj(A.n)[i][j]]],
            d |-> Abs(Det(A.n))])

\* a.dot(b) for rational matrices
Dot(A, B) == [n |-> MatMul(A.n, B.n), d |-> A.d * B.d]

\* a matrix of integers as a rational matrix
Whole(m) == [n |-> m, d |-> 1]

\* np.sqrt of the rational n/d: not a number when it is negative, else the
\* square root of n/d in lowest terms
NaNErr == [kind |-> "nan", n |-> 0, d |-> 1]
np_sqrt_rational(n, d) ==
    IF n < 0 THEN NaNErr
    ELSE [kind |-> "sqrt", n |-> n \div GCD(n, d), d |-> d \div GCD(n, d)]

\* what a call of CRB_errs does: returns errs, or raises LinAlgError
NoErrs == [how |-> "none", errs |-> <<>>]
Raised == [how |-> "LinAlgError", errs |-> <<>>]
Returned(errs) == [how |-> "returned", errs |-> errs]

\* line 290: errs = np.sqrt(np.diag(fim_inv))
SqrtDiag(fim_inv) ==
    [i \in 1..Len(fim_inv.n) |-> np_sqrt_rational(fim_inv.n[i][i], fim_inv.d)]

\* mutant: the Fisher matrix of the B path is jac^T.B.B.jac
CRB_errs_BB(jac, C, B) ==
    IF B # NoMatrix
    THEN LET jacT == Whole(Transpose(jac))
             m == Dot(Dot(Dot(jacT, B), B), Whole(jac))
         IN  IF Singular(m) THEN Raised ELSE Returned(SqrtDiag(inv(m)))
    ELSE IF Singular(C) THEN Raised
    ELSE LET fim == Dot(Dot(Whole(Transpose(jac)), inv(C)), Whole(jac))
         IN  IF Singular(fim) THEN Raised ELSE Returned(SqrtDiag(inv(fim)))

\* lines 282-291; B is NoMatrix when the caller gives none
CRB_errs(jac, C, B) ==
    IF B # NoMatrix
    THEN LET jacT == Whole(Transpose(jac))
             BT == [n |-> Transpose(B.n), d |-> B.d]
             m == Dot(Dot(Dot(jacT, B), BT), Whole(jac))
         IN  IF Singular(m) THEN Raised ELSE Returned(SqrtDiag(inv(m)))
    ELSE IF Singular(C) THEN Raised
    ELSE LET fim == Dot(Dot(Whole(Transpose(jac)), inv(C)), Whole(jac))
         IN  IF Singular(fim) THEN Raised ELSE Returned(SqrtDiag(inv(fim)))

-----------------------------------------------------------------------------
(* The Jacobian of the 2D model *)

\* the exponent of elliptical_gaussian (lines 28-30) at a sample
Exponent(p, x, y) ==
    elliptical_gaussian(x, y, 1, p.xo, p.yo, p.sx, p.sy, p.theta)

\* an entry (cn/cd) * np.exp(E.num/E.den), cd > 0, in normal form
Term(cn, cd, E) ==
    IF cn = 0 THEN [cn |-> 0, cd |-> 1, num |-> 0, den |-> 1]
    ELSE [cn |-> cn \div GCD(cn, cd), cd |-> cd \div GCD(cn, cd),
          num |-> E.num, den |-> E.den]

\* lines 233-241, one entry: (elliptical_gaussian at pars with eps added to
\* the parameter n, minus model) / eps, to first order in eps. Each line of
\* elliptical_gaussian is followed with its first-order change: dv is the
\* change of v per unit of eps, and 5*cos, 5*sin of theta + eps change by
\* -5*sin, 5*cos.
Empirical(p, x, y, n) ==
    LET Delta(m) == IF n = m THEN 1 ELSE 0
        s5 == sin5(p.theta)
        c5 == cos5(p.theta)
        ds5 == Delta("theta") * c5
        dc5 == -Delta("theta") * s5
        xxo == x - p.xo
        yyo == y - p.yo
        dxxo == -Delta("xo")
        dyyo == -Delta("yo")
        a5 == xxo * c5 + yyo * s5
        b5 == xxo * s5 - yyo * c5
        da5 == dxxo * c5 + xxo * dc5 + dyyo * s5 + yyo * ds5
        db5 == dxxo * s5 + xxo * ds5 - dyyo * c5 - yyo * dc5
        sx == p.sx
        sy == p.sy
        \* exp = a5^2 / (25 sx^2) + b5^2 / (25 sy^2), times -1/2; its
        \* change, over the denominator 25 sx^3 sy^3
        D == 25 * sx * sx * sx * sy * sy * sy
        dexp == - a5 * da5 * sx * sy * sy * sy
                + a5 * a5 * Delta("sx") * sy * sy * sy
                - b5 * db5 * sx * sx * sx * sy
                + b5 * b5 * Delta("sy") * sx * sx * sx
        \* amp * np.exp(exp) changes by damp * np.exp(exp) + amp * np.exp(exp) * dexp
    IN  Term(Delta("amp") * D + p.amp * dexp, D, Exponent(p, x, y))

\* lines 249-267, one entry
Analytic(p, x, y, n) ==
    LET sint5 == sin5(p.theta)
        cost5 == cos5(p.theta)
        sx == p.sx
        sy == p.sy
        xxo == x - p.xo
        yyo == x - p.yo
        \* 5 times xcos, ycos, xsin, ysin
        xcos == cost5 * xxo
        ycos == cost5 * yyo
        xsin == sint5 * xxo
        ysin == sint5 * yyo
        model == Exponent(p, x, y)
    IN  CASE n = "amp" -> Term(p.amp, p.amp, model)
          [] n = "xo" ->
               Term(p.amp * (cost5 * (xcos + ysin) * sy * sy
                             + sint5 * (xsin - ycos) * sx * sx),
                    25 * sx * sx * sy * sy, model)
          [] n = "yo" ->
               Term(p.amp * (sint5 * (xcos + ysin) * sy * sy
                             - cost5 * (xsin - ycos) * sx * sx),
                    25 * sx * sx * sy * sy, model)
          [] n = "sx" ->
               Term(p.amp * (xcos + ysin) * (xcos + ysin),
                    25 * sx * sx * sx, model)
          [] n = "sy" ->
               Term(p.amp * (xsin - ycos) * (xsin - ycos),
                    25 * sy * sy * sy, model)
          [] n = "theta" ->
               Term(p.amp * (sx * sx - sy * sy) * (xsin + ycos) * (xcos + ysin),
                    25 * sx * sx * sy * sy, model)

\* an entry divided by a positive whole number
Over(t, k) == Term(t.cn, t.cd * k, [num |-> t.num, den |-> t.den])

\* lines 220-271: one row per sample, the columns dmds, dmdxo, dmdyo,
\* dmdsx, dmdsy, dmdtheta; errs is <<>> for None. Only the empirical branch
\* divides by errs (lines 242-243); no branch reads the vary flags of pars.
jacobian2d(p, x, y, emp, errs) ==
    [k \in 1..Len(x) |-> [c \in 1..6 |->
        IF emp
        THEN IF errs # <<>>
             THEN Over(Empirical(p, x[k], y[k], Names2d[c]), errs[k])
             ELSE Empirical(p, x[k], y[k], Names2d[c])
        ELSE Analytic(p, x[k], y[k], Names2d[c])]]

\* lines 205-217: one row per sample, the columns dmds, dmdcen, dmdsigma
jacobian(p, x) ==
    [k \in 1..Len(x) |->
        LET model == gaussian(x[k], 1, p.cen, p.sigma)
        IN  <<Term(p.amp, p.amp, model),
              Term(p.amp * (x[k] - p.cen), p.sigma * p.sigma, model),
              Term(p.amp * (x[k] - p.cen) * (x[k] - p.cen),
                   p.sigma * p.sigma * p.sigma, model)>>]

\* the values of a parameters object
Values(obj) == [n \in DOMAIN obj.p |-> obj.p[n].value]

NoJac == [given |-> FALSE, branch |-> "none", matrix |-> <<>>]

\* the call jacobian2d(params, mask, data) binds data to the third parameter
\* and leaves emp = True and errs = None (line 220); line 232 chooses the
\* branch
\* mutant: the third argument is taken for emp and its truth value is False
jacobian2d_call_emp(p, xy) ==
    [given |-> TRUE, branch |-> "analytic",
     matrix |-> jacobian2d(p, [k \in 1..Len(xy) |-> xy[k][1]],
                           [k \in 1..Len(xy) |-> xy[k][2]], FALSE, <<>>)]

jacobian2d_call(p, xy) ==
    [given |-> TRUE, branch |-> "empirical",
     matrix |-> jacobian2d(p, [k \in 1..Len(xy) |-> xy[k][1]],
                           [k \in 1..Len(xy) |-> xy[k][2]], TRUE, <<>>)]

\* jfn(params, mask, data), jfn chosen at lines 147-151
Dfun(jfn, obj, msk) ==
    IF jfn = "jacobian"
    THEN [given |-> TRUE, branch |-> "jacobian",
          matrix |-> jacobian(Values(obj), msk)]
    ELSE jacobian2d_call(Values(obj), msk)

-----------------------------------------------------------------------------
(* Flat parameter vectors *)

\* groups (amp, xo, yo, major, minor, pa), pa in degrees
Groups == {<<1, 0, 0, 1, 1, 0>>, <<2, 1, 0, 2, 1, 90>>, <<1, 0, 1, 1, 2, 180>>}

RECURSIVE Flatten(_)
Flatten(rows) == IF Len(rows) = 0 THEN <<>> ELSE Head(rows) \o Flatten(Tail(rows))

\* the vectors a caller passes: whole groups followed by up to five entries
FlatVectors ==
    {Flatten(rows) \o [k \in 1..extra |-> 1] :
        rows \in UNION {[1..n -> Groups] : n \in 0..MaxComponents},
        extra \in 0..5}

\* the prefix of the names of component i; the first component has the six
\* plain names, the only ones line 75 lets the code read
Prefix(i) == IF i = 0 THEN "" ELSE "c" \o ToString(i) \o "_"

ComponentNames(n) == {Prefix(i) \o Names2d[k] : i \in 0..(n - 1), k \in 1..6}

\* a named model of Len(rows) components (params.components, lines 450 and
\* 664), component i holding the six values rows[i + 1]; theta is a whole
\* number of radians
NamedModel(rows) ==
    [components |-> Len(rows),
     p |-> [n \in ComponentNames(Len(rows)) |->
              LET i == CHOOSE j \in 0..(Len(rows) - 1) :
                          \E k \in 1..6 : n = Prefix(j) \o Names2d[k]
                  k == CHOOSE c \in 1..6 : n = Prefix(i) \o Names2d[c]
              IN  [value |-> rows[i + 1][k]]]]

NoModel == [components |-> 0, p |-> <<>>]

-----------------------------------------------------------------------------
(* Correlation matrices *)

\* mutant: the kernels are centred at the positions 0, 1, ... in x
Cmatrix_index(x, sigma) ==
    [i \in 1..Len(x) |-> [j \in 1..Len(x) |-> gaussian(x[j], 1, i - 1, sigma)]]

\* line 171: one row per sample i of x, gaussian(x, 1., i, 1.*sigma)
Cmatrix(x, sigma) ==
    [i \in 1..Len(x) |-> [j \in 1..Len(x) |-> gaussian(x[j], 1, x[i], sigma)]]

\* mutant: the centres are taken from zip(y, x)
Cmatrix2d_zipyx(x, y, sigmax, sigmay, theta) ==
    [k \in 1..Len(x) |-> [l \in 1..Len(x) |->
        elliptical_gaussian(x[l], y[l], 1, y[k], x[k], sigmax, sigmay, theta)]]

\* lines 185-187: one row per sample (i, j) of zip(x, y),
\* elliptical_gaussian(x, y, 1, i, j, sigmax, sigmay, theta)
Cmatrix2d(x, y, sigmax, sigmay, theta) ==
    [k \in 1..Len(x) |-> [l \in 1..Len(x) |->
        elliptical_gaussian(x[l], y[l], 1, x[k], y[k], sigmax, sigmay, theta)]]

\* the entries of C are all exp(0) multiples: C is a matrix of rationals
IsExact(C) == \A i \in 1..Len(C) : \A j \in 1..Len(C[i]) : C[i][j].num = 0

\* such a C over the denominator 25
Exact(C) ==
    [n |-> [i \in 1..Len(C) |-> [j \in 1..Len(C[i]) |-> 25 * C[i][j].amp]],
     d |-> 25]

-----------------------------------------------------------------------------
(* The state machines *)

\* the state of theta_limit before any call
ThetaIdle ==
    /\ tl_in = 0
    /\ tl_out = 0
    /\ tl_called = FALSE
    /\ fl_in = 0
    /\ fl_theta = 0
    /\ fl_pc = "returned"
    /\ fl_odd = FALSE

\* the fitted set before the test2d loop is modelled
CanonIdle ==
    /\ fit_params = [n \in NameSet2d |-> Entry(1, 1)]
    /\ fit_before = fit_params
    /\ canon_pc = "fitted"

\* the fit drivers before any call
FitLocalsIdle ==
    /\ fit_pc = "idle"
    /\ fit_api = "none"
    /\ fit_B = NoB
    /\ fit_jfn = "none"
    /\ fit_jac = NoJac
    /\ local_ref = 0
    /\ trial_p = <<>>
    /\ mask = <<>>
    /\ mask_evals = 0
    /\ resid = NoResidual
    /\ resid_given = FALSE
    /\ solver_calls = 0
    /\ evals = 0
    /\ fits = 0
    /\ ret_ref = 0
    /\ outcome = "none"
    /\ solver_out = "none"
    /\ mp_dof = 0

FitIdle ==
    /\ heap = <<CallerParams(1, "none")>>
    /\ params0 = heap[1]
    /\ parinfo = CallerParinfo("none")
    /\ fit_D = 1
    /\ data = [i \in 1..DataLen |-> Num(1)]
    /\ FitLocalsIdle

\* Bmatrix before any call
WhitenIdle ==
    /\ wh_C = Compose([L |-> <<1>>, Q5 |-> <<<<5>>>>])
    /\ wh_pc = "idle"
    /\ wh_L = <<>>
    /\ wh_B = NoMatrix

\* ntwodgaussian_mpfit before any call
MultiIdle ==
    /\ mg_in = <<>>
    /\ mg_pc = "idle"
    /\ mg_at = <<0, 0>>
    /\ mg_val = None
    /\ ml_obj = NoModel
    /\ ml_pc = "idle"
    /\ ml_at = <<0, 0>>
    /\ ml_val = None

\* Cmatrix / Cmatrix2d before any call
CorrIdle ==
    /\ cm_D = 1
    /\ cm_x = <<0>>
    /\ cm_y = <<>>
    /\ cm_s = [sx |-> 1, sy |-> 1, theta |-> 0]
    /\ cm_pc = "idle"
    /\ cm_C = <<>>
    /\ cm_B = NoMatrix

FittingIdle == ThetaIdle /\ CanonIdle /\ FitIdle /\ WhitenIdle /\ MultiIdle

\* elliptical_gaussian before any call
EvalIdle ==
    /\ ev_p = [amp |-> 1, xo |-> 0, yo |-> 0, sx |-> 1, sy |-> 1, theta |-> 0]
    /\ ev_at = <<0, 0>>
    /\ ev_pc = "idle"
    /\ ev_val = None

\* CRB_errs before any call
CrbIdle ==
    /\ cr_J = <<>>
    /\ cr_C = Compose([L |-> <<1>>, Q5 |-> <<<<5>>>>])
    /\ cr_B = NoMatrix
    /\ cr_pc = "idle"
    /\ cr_withB = NoErrs
    /\ cr_direct = NoErrs

\* test1d before its loop, for nx samples and a smoothing scale
LoopStart(nx, smoothing) ==
    /\ lp_x = [i \in 1..nx |-> i - 1]
    /\ lp_smoothing = smoothing
    /\ lp_j = 0
    /\ lp_pc = "fit"
    /\ lp_C = <<>>
    /\ lp_B = <<>>
    /\ lp_ok = <<FALSE, FALSE>>
    /\ lp_kept = <<0, 0>>
    /\ lp_fits = 0
    /\ lp_cm = 0
    /\ lp_bm = 0

LoopIdle == LoopStart(1, 1)

\* jacobian2d before any call
JacIdle ==
    /\ jc_D = 2
    /\ jc_p = [amp |-> 1, xo |-> 0, yo |-> 0, sx |-> 1, sy |-> 1, theta |-> 0]
    /\ jc_fixed = "none"
    /\ jc_errs = <<>>
    /\ jc_x = <<0>>
    /\ jc_y = <<0>>
    /\ jc_ana = <<>>
    /\ jc_emp = <<>>

AnalysisIdle == CorrIdle /\ EvalIdle /\ CrbIdle /\ LoopIdle /\ JacIdle

InitTheta == FittingIdle /\ AnalysisIdle

\* a call theta_limit(t)
ThetaLimitCall ==
    /\ \E t \in -MaxTheta..MaxTheta :
          /\ tl_in' = t
          /\ tl_out' = theta_limit(t)
    /\ tl_called' = TRUE
    /\ UNCHANGED <<analysis_vars, canon_vars, fit_vars, whiten_vars,
                   multi_vars, fl_in, fl_theta, fl_pc, fl_odd>>

NextTheta == ThetaLimitCall

SpecTheta == InitTheta /\ [][NextTheta]_vars

\* theta_limit(theta) is entered with a finite float
InitLimit ==
    /\ AnalysisIdle
    /\ CanonIdle
    /\ FitIdle
    /\ WhitenIdle
    /\ MultiIdle
    /\ tl_in = 0
    /\ tl_out = 0
    /\ tl_called = FALSE
    /\ fl_in \in Floats
    /\ fl_theta = fl_in
    /\ fl_pc = "first"
    /\ fl_odd = FALSE

\* lines 163-164: one pass of the first loop
FirstLoopAdd ==
    /\ fl_pc = "first"
    /\ fl_theta <= -1 * HalfPi
    /\ fl_theta' = float_add(fl_theta, Pi)
    /\ fl_odd' = ~fl_odd
    /\ UNCHANGED <<analysis_vars, canon_vars, fit_vars, whiten_vars,
                   multi_vars, tl_in, tl_out, tl_called, fl_in, fl_pc>>

\* line 163: the test of the first loop fails
FirstLoopEnds ==
    /\ fl_pc = "first"
    /\ ~(fl_theta <= -1 * HalfPi)
    /\ fl_pc' = "second"
    /\ UNCHANGED <<analysis_vars, canon_vars, fit_vars, whiten_vars,
                   multi_vars, tl_in, tl_out, tl_called, fl_in, fl_theta,
                   fl_odd>>

\* lines 165-166: one pass of the second loop
SecondLoopSubtract ==
    /\ fl_pc = "second"
    /\ fl_theta > HalfPi
    /\ fl_theta' = float_add(fl_theta, -Pi)
    /\ fl_odd' = ~fl_odd
    /\ UNCHANGED <<analysis_vars, canon_vars, fit_vars, whiten_vars,
                   multi_vars, tl_in, tl_out, tl_called, fl_in, fl_pc>>

\* lines 165 and 167: the test of the second loop fails, theta is returned
SecondLoopEnds ==
    /\ fl_pc = "second"
    /\ ~(fl_theta > HalfPi)
    /\ fl_pc' = "returned"
    /\ UNCHANGED <<analysis_vars, canon_vars, fit_vars, whiten_vars,
                   multi_vars, tl_in, tl_out, tl_called, fl_in, fl_theta,
                   fl_odd>>

NextLimit ==
    FirstLoopAdd \/ FirstLoopEnds \/ SecondLoopSubtract \/ SecondLoopEnds

\* the interpreter keeps running the function until it returns
SpecLimit == InitLimit /\ [][NextLimit]_vars /\ WF_vars(NextLimit)

InitCanon ==
    /\ AnalysisIdle
    /\ ThetaIdle
    /\ FitIdle
    /\ WhitenIdle
    /\ MultiIdle
    /\ fit_params \in FittedSets
    /\ fit_before = fit_params
    /\ canon_pc = "fitted"

\* test2d lines 490-494 when every stderr is positive
Canonicalize ==
    /\ canon_pc = "fitted"
    /\ AllStderrPositive(fit_params)
    /\ fit_params' = canonicalize(fit_params)
    /\ canon_pc' = "canon"
    /\ UNCHANGED <<analysis_vars, theta_vars, fit_vars, whiten_vars,
                   multi_vars, fit_before>>

\* test2d line 490 when some stderr is not positive: the block is skipped
CanonSkip ==
    /\ canon_pc = "fitted"
    /\ ~AllStderrPositive(fit_params)
    /\ canon_pc' = "skipped"
    /\ UNCHANGED <<analysis_vars, theta_vars, fit_vars, whiten_vars,
                   multi_vars, fit_params, fit_before>>

NextCanon == Canonicalize \/ CanonSkip

SpecCanon == InitCanon /\ [][NextCanon]_vars

\* the caller has its parameter set and an observation
InitFit ==
    /\ AnalysisIdle
    /\ ThetaIdle
    /\ CanonIdle
    /\ \E D \in {1, 2}, fixed \in {"none", "amp"} :
          /\ fit_D = D
          /\ heap = <<CallerParams(D, fixed)>>
          /\ parinfo = CallerParinfo(fixed)
          /\ data \in Observations(D)
    /\ params0 = heap[1]
    /\ FitLocalsIdle
    /\ WhitenIdle
    /\ MultiIdle

\* the whitening matrices a caller passes: none, one built from the masked
\* coordinates (test2d line 485) or one built from all of them (test1d line
\* 345); the first for uncorrelated noise of half the unit size, the second
\* for uncorrelated noise of unit size
CallerBs ==
    {NoB, ScaledEye(NFinite(data, fit_D), 2), Eye(Len(Flat(data, fit_D)))}

\* do_lmfit lines 126-154, up to the call of lmfit.minimize
CallDoLmfit ==
    /\ fit_pc = "idle"
    /\ fits < MaxFits
    /\ \E B \in CallerBs, dojac \in BOOLEAN :
          /\ fit_B' = B
          /\ fit_jfn' = IF ~dojac THEN "none"
                        ELSE IF fit_D = 1 THEN "jacobian" ELSE "jacobian2d"
    /\ fit_jac' = NoJac
    /\ LET c == deepcopy(heap, 1)
       IN  /\ heap' = c.heap
           /\ local_ref' = c.ref
    /\ mask' = np_where_isfinite(data, fit_D)
    /\ mask_evals' = 1
    /\ fit_api' = "lmfit"
    /\ fit_pc' = "solving"
    /\ solver_calls' = 1
    /\ evals' = 0
    /\ resid' = NoResidual
    /\ resid_given' = FALSE
    /\ fits' = fits + 1
    /\ ret_ref' = 0
    /\ outcome' = "running"
    /\ solver_out' = "running"
    /\ trial_p' = <<>>
    /\ mp_dof' = 0
    /\ UNCHANGED <<analysis_vars, theta_vars, canon_vars, whiten_vars,
                   multi_vars, params0, parinfo, fit_D, data>>

\* lmfit.minimize sets trial values on the object it was given and calls
\* residual(params, mask, data) and, when it was given a Dfun,
\* Dfun(params, mask, data) there
LmfitEval ==
    /\ fit_pc = "solving"
    /\ fit_api = "lmfit"
    /\ evals < MaxEvals
    /\ DotOk(Len(mask), fit_B)
    /\ \E dv \in 0..1 :
          LET obj == Shift(heap[local_ref], dv)
          IN  /\ heap' = [heap EXCEPT ![local_ref] = obj]
              /\ resid' = residual(obj, mask, data, fit_B, fit_D)
              /\ fit_jac' = IF fit_jfn = "none" THEN NoJac
                            ELSE Dfun(fit_jfn, obj, mask)
    /\ resid_given' = TRUE
    /\ evals' = evals + 1
    /\ UNCHANGED <<analysis_vars, theta_vars, canon_vars, whiten_vars,
                   multi_vars, params0, parinfo, fit_D, data, fit_pc, fit_api,
                   fit_B, fit_jfn, local_ref, trial_p, mask, mask_evals,
                   solver_calls, fits, ret_ref, outcome, solver_out, mp_dof>>

\* a driver that stops with an error when the solver did not converge
DriverReturn_fatal(result) ==
    IF result = "not_converged" THEN "raised" ELSE result

\* the drivers return the object the solver returned (lines 112-113 and
\* 152-155): its success flag is neither looked at nor changed
DriverReturn(result) == result

\* the locals of a driver call are gone when the call ends
FitLocalsDropped ==
    /\ fit_pc' = "idle"
    /\ fit_B' = NoB
    /\ fit_jfn' = "none"
    /\ fit_jac' = NoJac
    /\ local_ref' = 0
    /\ trial_p' = <<>>
    /\ mask' = <<>>
    /\ mask_evals' = 0
    /\ resid' = NoResidual
    /\ resid_given' = FALSE
    /\ evals' = 0

\* .dot(B) raises in the residual when B does not fit the masked data; the
\* exception leaves the driver
EvalRaises ==
    /\ fit_pc = "solving"
    /\ evals < MaxEvals
    /\ ~DotOk(Len(mask), fit_B)
    /\ FitLocalsDropped
    /\ ret_ref' = 0
    /\ solver_out' = "raised"
    /\ outcome' = "raised"
    /\ UNCHANGED <<analysis_vars, theta_vars, canon_vars, whiten_vars,
                   multi_vars, heap, params0, parinfo, fit_D, data, fit_api,
                   solver_calls, fits, mp_dof>>

\* lmfit.minimize ends: it has written the standard errors on the object it
\* was given, and do_lmfit returns (result, params), line 155
LmfitReturn ==
    /\ fit_pc = "solving"
    /\ fit_api = "lmfit"
    /\ evals >= 1
    /\ \E se \in 0..MaxStderr, how \in {"converged", "not_converged"} :
          /\ heap' = [heap EXCEPT ![local_ref] = WithStderr(@, se)]
          /\ solver_out' = how
          /\ outcome' = DriverReturn(how)
    /\ ret_ref' = local_ref
    /\ FitLocalsDropped
    /\ UNCHANGED <<analysis_vars, theta_vars, canon_vars, whiten_vars,
                   multi_vars, params0, parinfo, fit_D, data, fit_api,
                   solver_calls, fits, mp_dof>>

\* do_mpfit lines 99-111, up to the call of mpfit
CallDoMpfit ==
    /\ fit_pc = "idle"
    /\ fits < MaxFits
    /\ fit_D = 2
    /\ \E B \in CallerBs : fit_B' = B
    /\ mask' = np_where_isfinite(data, 2)
    /\ mask_evals' = 1
    /\ fit_api' = "mpfit"
    /\ fit_pc' = "solving"
    /\ fit_jfn' = "none"
    /\ fit_jac' = NoJac
    /\ local_ref' = 0
    /\ trial_p' = [i \in 1..Len(parinfo) |-> parinfo[i].value]
    /\ solver_calls' = 1
    /\ evals' = 0
    /\ resid' = NoResidual
    /\ resid_given' = FALSE
    /\ fits' = fits + 1
    /\ ret_ref' = 0
    /\ outcome' = "running"
    /\ solver_out' = "running"
    /\ heap' = <<heap[1]>>
    /\ mp_dof' = 0
    /\ UNCHANGED <<analysis_vars, theta_vars, canon_vars, whiten_vars,
                   multi_vars, params0, parinfo, fit_D, data>>

\* mpfit calls erfunc(p) with a trial vector
MpfitEval ==
    /\ fit_pc = "solving"
    /\ fit_api = "mpfit"
    /\ evals < MaxEvals
    /\ DotOk(Len(mask), fit_B)
    /\ \E dv \in 0..1 :
          LET p == ShiftVector(trial_p, parinfo, dv)
          IN  /\ trial_p' = p
              /\ ParameterCountOk(p)
              /\ resid' = erfunc(p, mask, data, fit_B)
    /\ resid_given' = TRUE
    /\ evals' = evals + 1
    /\ UNCHANGED <<analysis_vars, theta_vars, canon_vars, whiten_vars,
                   multi_vars, heap, params0, parinfo, fit_D, data, fit_pc,
                   fit_api, fit_B, fit_jfn, fit_jac, local_ref, mask,
                   mask_evals,
                   solver_calls, fits, ret_ref, outcome, solver_out, mp_dof>>

\* mpfit ends; lines 112-113 set mp.dof from np.ravel(mask), which holds the
\* row indices followed by the column indices, and return
MpfitReturn ==
    /\ fit_pc = "solving"
    /\ fit_api = "mpfit"
    /\ evals >= 1
    /\ \E how \in {"converged", "not_converged"} :
          /\ solver_out' = how
          /\ outcome' = DriverReturn(how)
    /\ mp_dof' = 2 * Len(mask) - Len(parinfo)
    /\ ret_ref' = 0
    /\ FitLocalsDropped
    /\ UNCHANGED <<analysis_vars, theta_vars, canon_vars, whiten_vars,
                   multi_vars, heap, params0, parinfo, fit_D, data, fit_api,
                   solver_calls, fits>>

NextFitDriver ==
    \/ CallDoLmfit
    \/ LmfitEval
    \/ EvalRaises
    \/ LmfitReturn
    \/ CallDoMpfit
    \/ MpfitEval
    \/ MpfitReturn

SpecFit == InitFit /\ [][NextFitDriver]_vars

\* the caller has a symmetric matrix C
InitWhiten ==
    /\ AnalysisIdle
    /\ ThetaIdle
    /\ CanonIdle
    /\ FitIdle
    /\ MultiIdle
    /\ wh_C \in CInputs
    /\ wh_pc = "idle"
    /\ wh_L = <<>>
    /\ wh_B = NoMatrix

\* Bmatrix(C) returns B
BmatrixReturns ==
    /\ wh_pc = "idle"
    /\ \E r \in Bmatrix(wh_C) :
          /\ ~r.exit
          /\ wh_L' = r.L
          /\ wh_B' = r.B
    /\ wh_pc' = "returned"
    /\ UNCHANGED <<analysis_vars, theta_vars, canon_vars, fit_vars,
                   multi_vars, wh_C>>

\* Bmatrix(C) ends the process with sys.exit(1)
BmatrixExits ==
    /\ wh_pc = "idle"
    /\ \E r \in Bmatrix(wh_C) :
          /\ r.exit
          /\ wh_L' = r.L
          /\ wh_B' = r.B
    /\ wh_pc' = "exited"
    /\ UNCHANGED <<analysis_vars, theta_vars, canon_vars, fit_vars,
                   multi_vars, wh_C>>

NextWhiten == BmatrixReturns \/ BmatrixExits

SpecWhiten == InitWhiten /\ [][NextWhiten]_vars

\* the caller has a flat parameter vector
InitMulti ==
    /\ AnalysisIdle
    /\ ThetaIdle
    /\ CanonIdle
    /\ FitIdle
    /\ WhitenIdle
    /\ mg_in \in FlatVectors
    /\ mg_pc = "idle"
    /\ mg_at = <<0, 0>>
    /\ mg_val = None
    /\ ml_obj = NoModel
    /\ ml_pc = "idle"
    /\ ml_at = <<0, 0>>
    /\ ml_val = None

\* ntwodgaussian_mpfit(inpars), lines 46-52: the reshape raises ValueError
MpfitModelRaises ==
    /\ mg_pc = "idle"
    /\ ~ParameterCountOk(mg_in)
    /\ mg_pc' = "raised"
    /\ UNCHANGED <<analysis_vars, theta_vars, canon_vars, fit_vars,
                   whiten_vars, mg_in, mg_at, mg_val, ml_obj, ml_pc, ml_at,
                   ml_val>>

\* ntwodgaussian_mpfit(inpars), lines 46-64: rfunc is returned
MpfitModelReturns ==
    /\ mg_pc = "idle"
    /\ ParameterCountOk(mg_in)
    /\ mg_pc' = "returned"
    /\ UNCHANGED <<analysis_vars, theta_vars, canon_vars, fit_vars,
                   whiten_vars, mg_in, mg_at, mg_val, ml_obj, ml_pc, ml_at,
                   ml_val>>

\* the returned rfunc is called at a coordinate
RfuncCall ==
    /\ mg_pc \in {"returned", "evaluated"}
    /\ \E x \in -1..1, y \in -1..1 :
          /\ mg_at' = <<x, y>>
          /\ mg_val' = ntwodgaussian_mpfit(mg_in, x, y)
    /\ mg_pc' = "evaluated"
    /\ UNCHANGED <<analysis_vars, theta_vars, canon_vars, fit_vars,
                   whiten_vars, mg_in, ml_obj, ml_pc, ml_at, ml_val>>

\* the caller puts the groups of its vector into a named model, one component
\* for each, and ntwodgaussian_lmfit(params) returns its rfunc, lines 72-87
LmfitModelReturns ==
    /\ ml_pc = "idle"
    /\ ParameterCountOk(mg_in)
    /\ Len(mg_in) >= 6
    /\ ml_obj' = NamedModel(Reshape(mg_in))
    /\ ml_pc' = "returned"
    /\ UNCHANGED <<analysis_vars, theta_vars, canon_vars, fit_vars,
                   whiten_vars, mg_in, mg_pc, mg_at, mg_val, ml_at, ml_val>>

\* the returned rfunc is called at a coordinate
LmfitRfuncCall ==
    /\ ml_pc \in {"returned", "evaluated"}
    /\ \E x \in -1..1, y \in -1..1 :
          /\ ml_at' = <<x, y>>
          /\ ml_val' = ntwodgaussian_lmfit_radians(ml_obj, x, y)
    /\ ml_pc' = "evaluated"
    /\ UNCHANGED <<analysis_vars, theta_vars, canon_vars, fit_vars,
                   whiten_vars, mg_in, mg_pc, mg_at, mg_val, ml_obj>>

NextMulti ==
    \/ MpfitModelRaises
    \/ MpfitModelReturns
    \/ RfuncCall
    \/ LmfitModelReturns
    \/ LmfitRfuncCall

SpecMulti == InitMulti /\ [][NextMulti]_vars

-----------------------------------------------------------------------------
(* Cmatrix, Cmatrix2d and Bmatrix of their result *)

\* the coordinates of the finite samples (np.where, lines 478 and 485) or the
\* sample positions (line 345), and the smoothing
InitCorr ==
    /\ FittingIdle
    /\ JacIdle
    /\ EvalIdle
    /\ CrbIdle
    /\ LoopIdle
    /\ cm_D \in {1, 2}
    /\ \E n \in 1..MaxSamples :
          /\ cm_x \in [1..n -> 0..MaxPix]
          /\ cm_y \in IF cm_D = 1 THEN {<<>>} ELSE [1..n -> 0..MaxPix]
    /\ cm_s \in [sx : 1..MaxSigma,
                  sy : IF cm_D = 1 THEN {1} ELSE 1..MaxSigma,
                  theta : IF cm_D = 1 THEN {0} ELSE 0..HalfPi]
    /\ cm_pc = "idle"
    /\ cm_C = <<>>
    /\ cm_B = NoMatrix

\* C = Cmatrix(x, smoothing)
CmatrixCall ==
    /\ cm_pc = "idle"
    /\ cm_D = 1
    /\ cm_C' = Cmatrix(cm_x, cm_s.sx)
    /\ cm_pc' = "built"
    /\ UNCHANGED <<fitting_vars, jac_vars, eval_vars, crb_vars, loop_vars,
                   cm_D, cm_x, cm_y, cm_s, cm_B>>

\* C = Cmatrix2d(x, y, sigmax, sigmay, theta)
Cmatrix2dCall ==
    /\ cm_pc = "idle"
    /\ cm_D = 2
    /\ cm_C' = Cmatrix2d(cm_x, cm_y, cm_s.sx, cm_s.sy, cm_s.theta)
    /\ cm_pc' = "built"
    /\ UNCHANGED <<fitting_vars, jac_vars, eval_vars, crb_vars, loop_vars,
                   cm_D, cm_x, cm_y, cm_s, cm_B>>

\* B = Bmatrix(C), for the matrices C whose decomposition the model covers
CorrBmatrix ==
    /\ cm_pc = "built"
    /\ IsExact(cm_C)
    /\ \E r \in Bmatrix(Exact(cm_C)) :
          /\ cm_B' = r.B
          /\ cm_pc' = IF r.exit THEN "exited" ELSE "whitened"
    /\ UNCHANGED <<fitting_vars, jac_vars, eval_vars, crb_vars, loop_vars,
                   cm_D, cm_x, cm_y, cm_s, cm_C>>

NextCorr ==
    \/ CmatrixCall
    \/ Cmatrix2dCall
    \/ CorrBmatrix

SpecCorr == InitCorr /\ [][NextCorr]_vars

-----------------------------------------------------------------------------
(* Calls of elliptical_gaussian *)

\* the widths a caller may pass: any nonzero value
Widths == (-MaxSigma..MaxSigma) \ {0}

InitEval ==
    /\ FittingIdle
    /\ JacIdle
    /\ CorrIdle
    /\ CrbIdle
    /\ LoopIdle
    /\ ev_p \in [amp : 1..MaxAmp, xo : 0..MaxPix, yo : 0..MaxPix,
                  sx : Widths, sy : Widths, theta : 0..(2 * Pi - 1)]
    /\ ev_at = <<0, 0>>
    /\ ev_pc = "idle"
    /\ ev_val = None

\* a call elliptical_gaussian(x, y, amp, xo, yo, sx, sy, theta)
EvalCall ==
    /\ ev_pc = "idle"
    /\ \E x \in 0..MaxPix, y \in 0..MaxPix :
          /\ ev_at' = <<x, y>>
          /\ ev_val' = elliptical_gaussian(x, y, ev_p.amp, ev_p.xo, ev_p.yo,
                                           ev_p.sx, ev_p.sy, ev_p.theta)
    /\ ev_pc' = "returned"
    /\ UNCHANGED <<fitting_vars, jac_vars, corr_vars, crb_vars, loop_vars,
                   ev_p>>

NextEval == EvalCall

SpecEval == InitEval /\ [][NextEval]_vars

-----------------------------------------------------------------------------
(* Calls of CRB_errs *)

\* the entries of the Jacobians a caller passes
JacEntries == {0, 1}

\* the Jacobians for n samples: one row per sample, at most n columns
Jacobians(n) == UNION {[1..n -> [1..p -> JacEntries]] : p \in 1..n}

\* the Jacobian of the next call: the caller computes one and keeps it
JacOfCall == IF cr_J = <<>> THEN Jacobians(Rows(cr_C.n)) ELSE {cr_J}

\* the caller has C
InitCrb ==
    /\ FittingIdle
    /\ JacIdle
    /\ CorrIdle
    /\ EvalIdle
    /\ LoopIdle
    /\ cr_C \in CInputs
    /\ cr_J = <<>>
    /\ cr_B = NoMatrix
    /\ cr_pc = "idle"
    /\ cr_withB = NoErrs
    /\ cr_direct = NoErrs

\* B = Bmatrix(C): returns B, or ends the process
CrbBmatrix ==
    /\ cr_pc = "idle"
    /\ \E r \in Bmatrix(cr_C) :
          /\ cr_B' = r.B
          /\ cr_pc' = IF r.exit THEN "exited" ELSE "whitened"
    /\ UNCHANGED <<fitting_vars, jac_vars, corr_vars, eval_vars, loop_vars,
                   cr_J, cr_C, cr_withB, cr_direct>>

\* CRB_errs(jac, C, B) with the B that Bmatrix returned
CrbWithB ==
    /\ cr_pc = "whitened"
    /\ cr_withB = NoErrs
    /\ \E jac \in JacOfCall :
          /\ cr_J' = jac
          /\ cr_withB' = CRB_errs(jac, cr_C, cr_B)
    /\ UNCHANGED <<fitting_vars, jac_vars, corr_vars, eval_vars, loop_vars,
                   cr_C, cr_B, cr_pc, cr_direct>>

\* CRB_errs(jac, C)
CrbDirect ==
    /\ cr_pc # "exited"
    /\ cr_direct = NoErrs
    /\ \E jac \in JacOfCall :
          /\ cr_J' = jac
          /\ cr_direct' = CRB_errs(jac, cr_C, NoMatrix)
    /\ UNCHANGED <<fitting_vars, jac_vars, corr_vars, eval_vars, loop_vars,
                   cr_C, cr_B, cr_pc, cr_withB>>

NextCrb ==
    \/ CrbBmatrix
    \/ CrbWithB
    \/ CrbDirect

SpecCrb == InitCrb /\ [][NextCrb]_vars

-----------------------------------------------------------------------------
(* The loop of test1d *)

\* B = Bmatrix(C) in the loop: B is determined by C up to the choices of
\* eigh, and is held as the C it whitens
WhiteningOf(C) == [whitens |-> C]

InitLoop ==
    /\ FittingIdle
    /\ JacIdle
    /\ CorrIdle
    /\ EvalIdle
    /\ CrbIdle
    /\ \E nx \in 1..MaxSamples, smoothing \in 1..MaxSigma :
          LoopStart(nx, smoothing)

\* line 344: result, fit_params = do_lmfit(data, params, D=1); the solver
\* reports standard errors that are all positive, or not
LoopFit ==
    /\ lp_pc = "fit"
    /\ \E ok \in BOOLEAN : lp_ok' = <<ok, FALSE>>
    /\ lp_fits' = lp_fits + 1
    /\ lp_pc' = "cmatrix"
    /\ UNCHANGED <<fitting_vars, jac_vars, corr_vars, eval_vars, crb_vars,
                   lp_x, lp_smoothing, lp_j, lp_C, lp_B, lp_kept, lp_cm,
                   lp_bm>>

\* line 345: C = Cmatrix(x, smoothing)
LoopCmatrix ==
    /\ lp_pc = "cmatrix"
    /\ lp_C' = Cmatrix(lp_x, lp_smoothing)
    /\ lp_cm' = lp_cm + 1
    /\ lp_pc' = "bmatrix"
    /\ UNCHANGED <<fitting_vars, jac_vars, corr_vars, eval_vars, crb_vars,
                   lp_x, lp_smoothing, lp_j, lp_B, lp_ok, lp_kept, lp_fits,
                   lp_bm>>

\* line 346: B = Bmatrix(C)
LoopBmatrix ==
    /\ lp_pc = "bmatrix"
    /\ lp_B' = WhiteningOf(lp_C)
    /\ lp_bm' = lp_bm + 1
    /\ lp_pc' = "fit_corr"
    /\ UNCHANGED <<fitting_vars, jac_vars, corr_vars, eval_vars, crb_vars,
                   lp_x, lp_smoothing, lp_j, lp_C, lp_ok, lp_kept, lp_fits,
                   lp_cm>>

\* line 347: result, corr_fit_params = do_lmfit(data, params, D=1, B=B)
LoopFitCorr ==
    /\ lp_pc = "fit_corr"
    /\ \E ok \in BOOLEAN : lp_ok' = <<lp_ok[1], ok>>
    /\ lp_fits' = lp_fits + 1
    /\ lp_pc' = "collect"
    /\ UNCHANGED <<fitting_vars, jac_vars, corr_vars, eval_vars, crb_vars,
                   lp_x, lp_smoothing, lp_j, lp_C, lp_B, lp_kept, lp_cm,
                   lp_bm>>

\* lines 349-357: the results with positive standard errors are kept, and
\* the next pass starts
LoopCollect ==
    /\ lp_pc = "collect"
    /\ lp_kept' = <<lp_kept[1] + (IF lp_ok[1] THEN 1 ELSE 0),
                    lp_kept[2] + (IF lp_ok[2] THEN 1 ELSE 0)>>
    /\ lp_j' = lp_j + 1
    /\ lp_pc' = IF lp_j + 1 < Passes THEN "fit" ELSE "done"
    /\ UNCHANGED <<fitting_vars, jac_vars, corr_vars, eval_vars, crb_vars,
                   lp_x, lp_smoothing, lp_C, lp_B, lp_ok, lp_fits, lp_cm,
                   lp_bm>>

NextLoop ==
    \/ LoopFit
    \/ LoopCmatrix
    \/ LoopBmatrix
    \/ LoopFitCorr
    \/ LoopCollect

SpecLoop == InitLoop /\ [][NextLoop]_vars

-----------------------------------------------------------------------------
(* Calls of jacobian2d *)

\* np.where(np.isfinite(data)) for a grid without NaN: the row and column
\* indices of all its pixels, row by row
GridRows == [k \in 1..((MaxPix + 1) * (MaxPix + 1)) |-> (k - 1) \div (MaxPix + 1)]
GridCols == [k \in 1..((MaxPix + 1) * (MaxPix + 1)) |-> (k - 1) % (MaxPix + 1)]

\* the errs a caller passes for n samples: None, or one positive error per
\* sample
ErrsArgs(n) == {<<>>, [k \in 1..n |-> 1 + (k % 2)]}

\* the fitted parameters, of which at most one is fixed, and the coordinates:
\* x of test1d (line 357), xy of test2d_load (line 689)
InitJac ==
    /\ FittingIdle
    /\ CorrIdle
    /\ EvalIdle
    /\ CrbIdle
    /\ LoopIdle
    /\ jc_D \in {1, 2}
    /\ jc_p \in IF jc_D = 1
                THEN [amp : 1..MaxAmp, cen : 0..MaxPix, sigma : 1..MaxSigma]
                ELSE [amp : 1..MaxAmp, xo : 0..MaxPix, yo : 0..MaxPix,
                      sx : 1..MaxSigma, sy : 1..MaxSigma, theta : 0..(Pi - 1)]
    /\ jc_fixed \in {"none"} \cup (IF jc_D = 1 THEN NameSet1d ELSE NameSet2d)
    /\ jc_x = IF jc_D = 1 THEN [k \in 1..MaxSamples |-> k - 1] ELSE GridRows
    /\ jc_y = IF jc_D = 1 THEN <<>> ELSE GridCols
    /\ jc_errs \in IF jc_D = 1 THEN {<<>>} ELSE ErrsArgs(Len(jc_x))
    /\ jc_ana = <<>>
    /\ jc_emp = <<>>

\* line 357: jacobian(corr_fit_params, x)
JacobianCall ==
    /\ jc_D = 1
    /\ jc_ana = <<>>
    /\ jc_ana' = jacobian(jc_p, jc_x)
    /\ UNCHANGED <<fitting_vars, corr_vars, eval_vars, crb_vars, loop_vars,
                   jc_D, jc_p, jc_fixed, jc_errs, jc_x, jc_y, jc_emp>>

\* jacobian2d(fit_params, xy, emp=False, errs=errs); line 690 gives no errs
Jacobian2dAnalytic ==
    /\ jc_D = 2
    /\ jc_ana = <<>>
    /\ jc_ana' = jacobian2d(jc_p, jc_x, jc_y, FALSE, jc_errs)
    /\ UNCHANGED <<fitting_vars, corr_vars, eval_vars, crb_vars, loop_vars,
                   jc_D, jc_p, jc_fixed, jc_errs, jc_x, jc_y, jc_emp>>

\* jacobian2d(fit_params, xy, emp=True, errs=errs); line 700 gives no errs,
\* lines 497 and 506 give them
Jacobian2dEmpirical ==
    /\ jc_D = 2
    /\ jc_emp = <<>>
    /\ jc_emp' = jacobian2d(jc_p, jc_x, jc_y, TRUE, jc_errs)
    /\ UNCHANGED <<fitting_vars, corr_vars, eval_vars, crb_vars, loop_vars,
                   jc_D, jc_p, jc_fixed, jc_errs, jc_x, jc_y, jc_ana>>

NextJac ==
    \/ JacobianCall
    \/ Jacobian2dAnalytic
    \/ Jacobian2dEmpirical

SpecJac == InitJac /\ [][NextJac]_vars

-----------------------------------------------------------------------------
(* The claims *)

(* C1: every value theta_limit returns is greater than -pi/2 and at most   *)
(* pi/2; -pi/2 is returned as pi/2 and pi/2 is returned unchanged.         *)
C1_Range ==
    tl_called =>
        /\ tl_out > -HalfPi
        /\ tl_out <= HalfPi
        /\ (tl_in = -HalfPi => tl_out = HalfPi)
        /\ (tl_in = HalfPi => tl_out = HalfPi)

C1_Witness == tl_called /\ tl_in = -HalfPi /\ tl_out = HalfPi

C3_Canonical ==
    canon_pc = "canon" =>
        /\ fit_params["sx"].value >= fit_params["sy"].value
        /\ fit_params["theta"].value > -HalfPi
        /\ fit_params["theta"].value <= HalfPi

C3_Witness ==
    /\ canon_pc = "canon"
    /\ fit_before["sy"].value > fit_before["sx"].value
    /\ fit_before["theta"].value = ThetaMax

(* C4: canonicalizing a parameter set with sy > sx leaves the model value  *)
(* at every coordinate unchanged.                                          *)
C4_SameModel ==
    (canon_pc = "canon" /\ fit_before["sy"].value > fit_before["sx"].value) =>
        \A x \in -MaxCoord..MaxCoord, y \in -MaxCoord..MaxCoord :
            ModelAt(fit_params, x, y) = ModelAt(fit_before, x, y)

C4_Witness ==
    /\ canon_pc = "canon"
    /\ fit_before["sy"].value > fit_before["sx"].value
    /\ fit_before["theta"].value % HalfPi # 0
    /\ fit_params["theta"].value # fit_before["theta"].value + HalfPi

(* C5: no sequence of do_lmfit calls changes the caller's parameter        *)
(* object: its values, bounds, fixed flags and standard errors stay as     *)
(* they were before the first call, and what do_lmfit returns is another   *)
(* object.                                                                 *)
C5_CallerUntouched ==
    /\ heap[1] = params0
    /\ ret_ref # 0 => ret_ref # 1

C5_Witness ==
    /\ fits = MaxFits
    /\ ret_ref # 0
    /\ \E n \in DOMAIN params0.p :
          /\ heap[ret_ref].p[n].value # params0.p[n].value
          /\ heap[ret_ref].p[n].stderr # params0.p[n].stderr

\* the number of free parameters of the driver that ran
FreeCount ==
    IF fit_api = "mpfit"
    THEN Cardinality({i \in 1..Len(parinfo) : ~parinfo[i].fixed})
    ELSE NFree(params0)

(* C9: when the observation has no more finite samples than there are free *)
(* parameters, a driver call reports InsufficientData and does not invoke  *)
(* the solver.                                                             *)
C9_InsufficientData ==
    (fits > 0 /\ NFinite(data, fit_D) <= FreeCount) =>
        (solver_calls = 0 /\ outcome = "InsufficientData")

\* the model of the running call at a coordinate, from the parameters tried
ModelOfCall(c) ==
    IF fit_api = "mpfit" THEN ntwodgaussian_mpfit(trial_p, c[1], c[2])
    ELSE IF fit_D = 2 THEN ntwodgaussian_lmfit(heap[local_ref], c[1], c[2])
    ELSE Add(None, gaussian(c, heap[local_ref].p["amp"].value,
                            heap[local_ref].p["cen"].value,
                            heap[local_ref].p["sigma"].value))

\* the position of a coordinate in row-major order
Rank(c) == IF fit_D = 1 THEN c ELSE c[1] * Len(data[1]) + c[2]

(* C10: every residual the solver receives has one entry per finite sample *)
(* of the observation, in the order of the samples, each computed from the *)
(* model at that sample's coordinate and that sample's finite datum; the   *)
(* mask was computed once in the call.                                     *)
C10_FiniteOnly ==
    resid_given =>
        /\ mask_evals = 1
        /\ Len(resid.vec) = NFinite(data, fit_D)
        /\ \A i \in 1..Len(resid.vec) :
              LET e == resid.vec[i]
              IN  /\ e.kind = "num"
                  /\ np_isfinite(DataAt(data, fit_D, e.at))
                  /\ e.data = DataAt(data, fit_D, e.at).v
                  /\ e.at = mask[i]
                  /\ e.model = ModelOfCall(e.at)
                  /\ i > 1 => Rank(resid.vec[i - 1].at) < Rank(e.at)

C10_Witness ==
    /\ resid_given
    /\ Len(resid.vec) >= 1
    /\ \E c \in 1..Len(Flat(data, fit_D)) : Flat(data, fit_D)[c] = NaN
    /\ \E c \in 1..Len(Flat(data, fit_D)) : Flat(data, fit_D)[c] = Inf

\* all eigenvalues of a symmetric matrix of size 1 or 2 are positive: its
\* leading minors are
PositiveDefinite(C) ==
    /\ C.n[1][1] > 0
    /\ Rows(C.n) = 2 => C.n[1][1] * C.n[2][2] - C.n[1][2] * C.n[2][1] > 0

C7_Whitens ==
    wh_pc = "returned" =>
        MatMul(MatMul(wh_B.n, Transpose(wh_B.n)), wh_C.n)
            = Scaled(wh_B.d * wh_B.d * wh_C.d, Rows(wh_C.n))

C7_Witness ==
    /\ wh_pc = "returned"
    /\ Rows(wh_C.n) = 2
    /\ wh_C.n[1][2] # 0
    /\ wh_L[1] # wh_L[2]
    /\ wh_L[1] > 1

\* the group of six that starts the i-th component of a flat vector
Group(inpars, i) == SubSeq(inpars, 6 * i - 5, 6 * i)

(* C8: ntwodgaussian_mpfit raises, returning no function, for every vector *)
(* whose length is not a multiple of 6; for every length that is one, it   *)
(* returns a function whose value is the sum of the length/6 elliptical    *)
(* Gaussians of the consecutive groups of 6.                               *)
C8_CountOrSum ==
    mg_pc # "idle" =>
        /\ Len(mg_in) % 6 # 0 => mg_pc = "raised"
        /\ Len(mg_in) % 6 = 0 => mg_pc \in {"returned", "evaluated"}
        /\ mg_pc = "evaluated" =>
              /\ ~mg_val.none
              /\ mg_val.terms =
                    [i \in 1..(Len(mg_in) \div 6) |->
                        LET g == Group(mg_in, i)
                        IN  elliptical_gaussian(mg_at[1], mg_at[2], g[1], g[2],
                                                g[3], g[4], g[5],
                                                np_radians(g[6]))]

\* C11: every driver call invokes the solver exactly once, and when the call
\* has ended the driver has returned what the solver reported, converged or
\* not: no second run of the solver, no error made of non-convergence
C11_SolverOnce ==
    /\ fits > 0 => solver_calls = 1
    /\ (fits > 0 /\ fit_pc = "idle") => outcome = solver_out

C11_Witness ==
    /\ fits > 0
    /\ fit_pc = "idle"
    /\ solver_out = "not_converged"
    /\ outcome = "not_converged"
    /\ solver_calls = 1

(***************************************************************************)
(* C12: the matrix Cmatrix or Cmatrix2d returns is square, one row and one *)
(* column per sample, symmetric, and has 1 in every diagonal entry.        *)
(***************************************************************************)
One == ExpVal(1, 0, 1)

C12_SquareSymmetric ==
    cm_pc # "idle" =>
        /\ Len(cm_C) = Len(cm_x)
        /\ \A i \in 1..Len(cm_C) :
              /\ Len(cm_C[i]) = Len(cm_C)
              /\ cm_C[i][i] = One
              /\ \A j \in 1..Len(cm_C) : cm_C[i][j] = cm_C[j][i]

C12_Witness ==
    /\ cm_pc = "built"
    /\ cm_D = 2
    /\ Len(cm_C) = 2
    /\ cm_C[1][2] # One
    /\ cm_s.sx # cm_s.sy
    /\ cm_s.theta = 1

(***************************************************************************)
(* C13: for a single sample, Cmatrix and Cmatrix2d return the 1x1 matrix   *)
(* [1.0], whatever the smoothing, and Bmatrix of it returns [1.0].         *)
(***************************************************************************)
C13_SingleSample ==
    Len(cm_x) = 1 =>
        /\ cm_pc # "idle" => cm_C = <<<<One>>>>
        /\ cm_pc # "exited"
        /\ cm_pc = "whitened" => cm_B.n = <<<<cm_B.d>>>>

C13_Witness ==
    /\ Len(cm_x) = 1
    /\ cm_pc = "whitened"
    /\ cm_D = 2
    /\ cm_x[1] # cm_y[1]
    /\ cm_s.sx > 1

(***************************************************************************)
(* C14: evaluated at its centre (x = xo, y = yo), elliptical_gaussian      *)
(* returns amp: the exponent is 0, for every theta and nonzero sx, sy.     *)
(***************************************************************************)
C14_CentreIsAmp ==
    (ev_pc = "returned" /\ ev_at = <<ev_p.xo, ev_p.yo>>) =>
        ev_val = ExpVal(ev_p.amp, 0, 1)

C14_Witness ==
    /\ ev_pc = "returned"
    /\ ev_at = <<ev_p.xo, ev_p.yo>>
    /\ ev_p.xo # ev_p.yo
    /\ ev_p.sx < 0
    /\ ev_p.sy > 1
    /\ ev_p.theta = 1
    /\ ev_p.amp = 2

(***************************************************************************)
(* C15: when sx = sy the value of elliptical_gaussian at a coordinate is   *)
(* the same for every theta: amp*exp(-((x-xo)^2 + (y-yo)^2) / (2*sx^2)).   *)
(***************************************************************************)
C15_Isotropic ==
    (ev_pc = "returned" /\ ev_p.sx = ev_p.sy) =>
        /\ ev_val = ExpVal(ev_p.amp,
                           -((ev_at[1] - ev_p.xo) * (ev_at[1] - ev_p.xo)
                             + (ev_at[2] - ev_p.yo) * (ev_at[2] - ev_p.yo)),
                           2 * ev_p.sx * ev_p.sx)
        /\ \A t \in 0..(2 * Pi - 1) :
              ev_val = elliptical_gaussian(ev_at[1], ev_at[2], ev_p.amp, ev_p.xo,
                                           ev_p.yo, ev_p.sx, ev_p.sy, t)

C15_Witness ==
    /\ ev_pc = "returned"
    /\ ev_p.sx = ev_p.sy
    /\ ev_p.theta = 2
    /\ ev_at[1] # ev_p.xo
    /\ ev_at[2] # ev_p.yo
    /\ ev_val # ExpVal(ev_p.amp, 0, 1)

\* the Fisher information matrix jac^T.C^-1.jac of a nonsingular C
Fisher(jac, C) == Dot(Dot(Whole(Transpose(jac)), inv(C)), Whole(jac))

(***************************************************************************)
(* C16: when C or the Fisher matrix is singular or not positive definite,  *)
(* CRB_errs fails as Bmatrix does: it returns no vector of errors, so none *)
(* that holds a NaN or comes from a negative variance.                     *)
(***************************************************************************)
C16_FailsLikeBmatrix ==
    (/\ cr_direct # NoErrs
     /\ \/ ~PositiveDefinite(cr_C)
        \/ ~PositiveDefinite(Fisher(cr_J, cr_C)))
        => cr_direct.how # "returned"

(***************************************************************************)
(* C17: for a positive definite C, CRB_errs(jac, C, B) with B = Bmatrix(C) *)
(* and CRB_errs(jac, C) do the same: they return the same errors, the      *)
(* square roots of the diagonal of the inverse Fisher matrix.              *)
(***************************************************************************)
C17_PathsAgree ==
    (cr_withB # NoErrs /\ cr_direct # NoErrs) =>
        /\ cr_withB = cr_direct
        /\ ~Singular(Fisher(cr_J, cr_C)) =>
              cr_direct = Returned(SqrtDiag(inv(Fisher(cr_J, cr_C))))

C17_Witness ==
    /\ cr_withB # NoErrs
    /\ cr_direct.how = "returned"
    /\ Len(cr_direct.errs) = 2
    /\ cr_C.n[1][2] # 0
    /\ cr_C.n[1][1] # cr_C.n[2][2]
    /\ cr_J[1][2] # 0
    /\ cr_direct.errs[1] # cr_direct.errs[2]

(***************************************************************************)
(* C18: over the fits of a run, which all use the same coordinates and the *)
(* same smoothing scale, C and B are computed once and reused: the numbers *)
(* of Cmatrix and Bmatrix calls do not grow with the number of fits.       *)
(***************************************************************************)
C18_ComputedOnce ==
    /\ lp_cm <= 1
    /\ lp_bm <= 1

(***************************************************************************)
(* C19: for the same parameters and coordinates, jacobian2d with emp=False *)
(* and with emp=True return the same matrix, up to the finite difference:  *)
(* all six columns agree, also at samples whose x is not their y.          *)
(***************************************************************************)
C19_ModesAgree ==
    (jc_ana # <<>> /\ jc_emp # <<>> /\ jc_errs = <<>>) => jc_ana = jc_emp

(***************************************************************************)
(* C20: the degrees of freedom a driver reports are the number of finite   *)
(* samples minus the number of free parameters; in particular mp.dof of    *)
(* do_mpfit has this value for a 2D observation.                           *)
(***************************************************************************)
C20_DegreesOfFreedom ==
    (/\ fit_api = "mpfit"
     /\ fit_pc = "idle"
     /\ outcome \in {"converged", "not_converged"})
        => mp_dof = NFinite(data, 2) - FreeCount

\* the free parameters of pars, in the canonical order
FreeNames ==
    SelectSeq(IF jc_D = 1 THEN Names1d ELSE Names2d, LAMBDA n : n # jc_fixed)

(***************************************************************************)
(* C21: the matrix a Jacobian provider returns has one row per sample and  *)
(* one column per free parameter, in the canonical order; a parameter with *)
(* vary=False has no column.                                               *)
(***************************************************************************)
C21_ColumnPerFreeParameter ==
    /\ jc_ana # <<>> =>
          /\ Len(jc_ana) = Len(jc_x)
          /\ \A k \in 1..Len(jc_ana) : Len(jc_ana[k]) = Len(FreeNames)
    /\ jc_emp # <<>> =>
          /\ Len(jc_emp) = Len(jc_x)
          /\ \A k \in 1..Len(jc_emp) :
                /\ Len(jc_emp[k]) = Len(FreeNames)
                /\ jc_errs = <<>> =>
                      \A c \in 1..Len(FreeNames) :
                          jc_emp[k][c]
                              = Empirical(jc_p, jc_x[k], jc_y[k], FreeNames[c])

\* every row k of a matrix divided by errs[k]
RowsOver(matrix, errs) ==
    [k \in 1..Len(matrix) |->
        [c \in 1..Len(matrix[k]) |-> Over(matrix[k][c], errs[k])]]

(***************************************************************************)
(* C22: with errs given, row i of the matrix jacobian2d returns is row i   *)
(* of the unweighted Jacobian divided by errs[i], for emp=True and for     *)
(* emp=False; without errs the matrix is the unweighted one.               *)
(***************************************************************************)
C22_RowsOverErrs ==
    /\ (jc_D = 2 /\ jc_ana # <<>>) =>
          jc_ana = IF jc_errs = <<>>
                   THEN jacobian2d(jc_p, jc_x, jc_y, FALSE, <<>>)
                   ELSE RowsOver(jacobian2d(jc_p, jc_x, jc_y, FALSE, <<>>), jc_errs)
    /\ jc_emp # <<>> =>
          jc_emp = IF jc_errs = <<>>
                   THEN jacobian2d(jc_p, jc_x, jc_y, TRUE, <<>>)
                   ELSE RowsOver(jacobian2d(jc_p, jc_x, jc_y, TRUE, <<>>), jc_errs)

(***************************************************************************)
(* C23: the residual handed to the solver is the model at the masked       *)
(* coordinates minus the masked data, multiplied on the right by B exactly *)
(* when the caller gave a B and left as it is when B is None; so in        *)
(* do_lmfit with D=1 and with D=2, and in do_mpfit.                        *)
(***************************************************************************)
C23_WhitenedIffB ==
    resid_given =>
        /\ resid.vec = [i \in 1..Len(mask) |->
                          Diff(ModelOfCall(mask[i]), data, fit_D, mask[i])]
        /\ resid.whitened = ~fit_B.none
        /\ resid.B = fit_B.m

C23_Witness ==
    /\ resid_given
    /\ ~fit_B.none
    /\ resid.whitened
    /\ Len(resid.vec) >= 1
    /\ resid.B = ScaledEye(Len(resid.vec), 2).m

\* the value of component i of a named model at (x, y)
ComponentValue(obj, i, x, y) ==
    elliptical_gaussian_radians(x, y, obj.p[Prefix(i) \o "amp"].value,
        obj.p[Prefix(i) \o "xo"].value, obj.p[Prefix(i) \o "yo"].value,
        obj.p[Prefix(i) \o "sx"].value, obj.p[Prefix(i) \o "sy"].value,
        obj.p[Prefix(i) \o "theta"].value)

(***************************************************************************)
(* C24: for a named model of N > 1 components, the rfunc of                *)
(* ntwodgaussian_lmfit returns the sum of N elliptical Gaussians, the i-th *)
(* evaluated with the amp, xo, yo, sx, sy and theta of component i.        *)
(***************************************************************************)
C24_OwnParameters ==
    (ml_pc = "evaluated" /\ ml_obj.components > 1) =>
        /\ ~ml_val.none
        /\ ml_val.terms =
              [i \in 1..ml_obj.components |->
                  ComponentValue(ml_obj, i - 1, ml_at[1], ml_at[2])]

(***************************************************************************)
(* C25: for one component, the rfunc of ntwodgaussian_mpfit on the flat    *)
(* vector [amp, xo, yo, sx, sy, theta] and the rfunc of                    *)
(* ntwodgaussian_lmfit on the named model of the same six values return    *)
(* the same value at every coordinate.                                     *)
(***************************************************************************)
C25_SameValue ==
    (/\ mg_pc = "evaluated" /\ ml_pc = "evaluated"
     /\ Len(mg_in) = 6
     /\ \A k \in 1..6 : ml_obj.p[Names2d[k]].value = mg_in[k]
     /\ mg_at = ml_at) =>
        ml_val = mg_val

(***************************************************************************)
(* C26: theta_limit terminates for every finite input: after finitely many *)
(* additions and subtractions of pi the function returns.                  *)
(***************************************************************************)
C26_Terminates == <>(fl_pc = "returned")

\* the sum of the entries ts[i] times the whole numbers ks[i]: the terms with
\* the same exponential are added up, and those that vanish are left out
Combine(ts, ks) ==
    LET Es == {[num |-> ts[i].num, den |-> ts[i].den] : i \in 1..Len(ts)}
        RECURSIVE Coef(_, _, _)
        Coef(i, E, acc) ==
            IF i > Len(ts) THEN acc
            ELSE Coef(i + 1, E,
                      IF ts[i].num = E.num /\ ts[i].den = E.den
                      THEN <<acc[1] * ts[i].cd + ks[i] * ts[i].cn * acc[2],
                             acc[2] * ts[i].cd>>
                      ELSE acc)
    IN  {Term(Coef(1, E, <<0, 1>>)[1], Coef(1, E, <<0, 1>>)[2], E) : E \in Es}
            \ {Term(0, 1, [num |-> 0, den |-> 1])}

\* the derivative of the residual the solver was given: of model - data, and
\* of (model - data).dot(B) when it is whitened; entry (j, c) is the sum over
\* the samples i of B[i][j] times the derivative of the model at sample i
ResidualDerivative(J) ==
    [j \in 1..Len(J) |-> [c \in 1..Len(J[j]) |->
        IF resid.whitened
        THEN Combine([i \in 1..Len(J) |-> J[i][c]],
                     [i \in 1..Len(J) |-> resid.B[i][j]])
        ELSE Combine(<<J[j][c]>>, <<1>>)]]

(***************************************************************************)
(* C27: when do_lmfit is called with dojac=True and a B, the matrix the    *)
(* Jacobian callback returns is the derivative of the whitened residual    *)
(* (model - data).B that the solver minimises.                             *)
(***************************************************************************)
C27_JacobianOfResidual ==
    (fit_jac.given /\ ~fit_B.none) =>
        [j \in 1..Len(fit_jac.matrix) |->
            [c \in 1..Len(fit_jac.matrix[j]) |->
                Combine(<<fit_jac.matrix[j][c]>>, <<1>>)]]
          = ResidualDerivative(Dfun(fit_jfn, heap[local_ref], mask).matrix)

(***************************************************************************)
(* C28: no Jacobian callback of do_lmfit runs the analytic branch of       *)
(* jacobian2d: the solver calls jacobian2d(params, mask, data), emp keeps  *)
(* its default True and the matrix is the empirical one.                   *)
(***************************************************************************)
C28_NeverAnalytic ==
    (fit_jac.given /\ fit_jfn = "jacobian2d") =>
        /\ fit_jac.branch = "empirical"
        /\ fit_jac.matrix =
              jacobian2d(Values(heap[local_ref]),
                         [k \in 1..Len(mask) |-> mask[k][1]],
                         [k \in 1..Len(mask) |-> mask[k][2]], TRUE, <<>>)

C28_Witness ==
    /\ fit_jac.given
    /\ fit_jfn = "jacobian2d"
    /\ fit_D = 2
    /\ Len(fit_jac.matrix) >= 2
    /\ fit_jac.matrix # jacobian2d(Values(heap[local_ref]),
                                   [k \in 1..Len(mask) |-> mask[k][1]],
                                   [k \in 1..Len(mask) |-> mask[k][2]],
                                   FALSE, <<>>)

(***************************************************************************)
(* C29: the canonicalization exchanges the whole sx and sy entries: after  *)
(* a swap the value, the standard error and the bounds under sx are those  *)
(* that were under sy, and the other way round; when sy <= sx only the     *)
(* value of theta can change, to theta_limit of it; no other entry changes *)
(* in either case.                                                         *)
(***************************************************************************)
C29_WholeEntries ==
    canon_pc = "canon" =>
        /\ \A n \in NameSet2d \ {"sx", "sy", "theta"} :
              fit_params[n] = fit_before[n]
        /\ IF fit_before["sy"].value > fit_before["sx"].value
           THEN /\ fit_params["sx"] = fit_before["sy"]
                /\ fit_params["sy"] = fit_before["sx"]
                /\ fit_params["theta"] =
                      [fit_before["theta"] EXCEPT
                          !.value = theta_limit(@ + HalfPi)]
           ELSE /\ fit_params["sx"] = fit_before["sx"]
                /\ fit_params["sy"] = fit_before["sy"]
                /\ fit_params["theta"] =
                      [fit_before["theta"] EXCEPT !.value = theta_limit(@)]

C29_Witness ==
    /\ canon_pc = "canon"
    /\ fit_before["sy"].value > fit_before["sx"].value
    /\ fit_before["sy"].stderr # fit_before["sx"].stderr
    /\ fit_before["sy"].min # fit_before["sx"].min
    /\ fit_before["sy"].max # fit_before["sx"].max
    /\ fit_params["sx"].stderr = fit_before["sy"].stderr
    /\ fit_params["sx"].min = fit_before["sy"].min

====
